---- MODULE Spec2Model ----
(***************************************************************************)
(* A model of the radio scheduler's assignment engine: the day scheduler   *)
(* (src/src/solver/dayScheduler.ts), the week scheduler (the tail of       *)
(* src/src/solver/glpkScheduler.ts), the schedule operations               *)
(* (src/unnamed/part_005), the assignment utilities (src/unnamed/part_007),*)
(* the UT balancer (src/unnamed/part_006), the shift calendar              *)
(* (src/src/solver/utils/shiftUtils.ts) and the shift-aware fallback       *)
(* (src/src/solver/utils/fallbackUtils.ts).                                *)
(*                                                                         *)
(* Representation.  A cell value (a JavaScript string) is the sequence of  *)
(* its '/'-separated, trimmed tokens: "" is << >>, "A" is <<"A">> and      *)
(* "A/T" is <<"A", "T">>.  A dispatcher is a record that has exactly the   *)
(* fields the JavaScript object has, so an optional field is absent from   *)
(* the record's domain.  A ScheduleDay object lives in the heap under a    *)
(* reference; its twelve row objects are allocated together with it        *)
(* (cloneScheduleDay, createEmptyScheduleDay) and are never stored on      *)
(* their own, so a day object and its rows form one allocation unit.       *)
(***************************************************************************)
EXTENDS Integers, Sequences, FiniteSets, TLC

VARIABLES
  mode,          \* which entry point was called: "day", "week" or "ut"
  pc,            \* position of the call in its code
  dispatchers,   \* the roster argument (a sequence of dispatcher records)
  heap,          \* reference -> ScheduleDay value (the live day objects)
  day,           \* the day being solved (generateScheduleForDay's argument)
  locked,        \* reference of the locked argument, 0 when undefined
  current,       \* the caller's Schedule: day -> reference
  input,         \* the values the caller's structure held at the call
  schedule,      \* reference of generateScheduleForDay's working day
  sorted,        \* sortedDispatchers of the running pass
  idx,           \* loop position in sorted
  newSchedule,   \* generateWeeklySchedule's newSchedule: day -> reference
  week,          \* assignUTSlots' weekSchedule argument: day -> reference
  utAssignments, \* assignUTSlots' per-dispatcher UT count
  remaining,     \* assignExtraUTSlots' remainingSlots
  slotIndex,     \* assignExtraUTSlots' slotIndex
  run,           \* 1 for the first call, 2 for the call on its own output
  firstOut,      \* the values the first call returned
  seeded,        \* the working day's value when the primary pass began
  querySlot,     \* the slot argument of an eligibility query
  answer,        \* the answer of an eligibility query
  lastWrite      \* the last assignment step: who, pass, result, the day before

vars == << mode, pc, dispatchers, heap, day, locked, current, input, schedule,
           sorted, idx, newSchedule, week, utAssignments, remaining, slotIndex,
           run, firstOut, seeded, querySlot, answer, lastWrite >>

\* the arguments of the call and the record of the first call
callVars == << mode, dispatchers, current, input, run, firstOut, querySlot, answer >>

\* the locals of assignUTSlots
utVars == << week, utAssignments, remaining, slotIndex >>

----------------------------------------------------------------------------
(* constants.ts *)

days == << "Monday", "Tuesday", "Wednesday", "Thursday", "Friday",
           "Saturday", "Sunday" >>

timeSlots == << "0330-0530", "0530-0730", "0730-0930", "0930-1130",
                "1130-1330", "1330-1530", "1530-1730", "1730-1930",
                "1930-2130", "2130-2330", "2330-0130", "0130-0330" >>

columns == << "SW", "CE", "SE", "NE", "NW", "MT", "UT", "RELIEF" >>

WEEKDAY_MT_DISABLED == << "0330-0530", "0530-0730" >>

WEEKEND_MT_DISABLED == << "0330-0530", "0530-0730", "0730-0930", "0930-1130",
                          "1130-1330", "1330-1530" >>

Range(s) == { s[i] : i \in DOMAIN s }

Days == Range(days)

Slots == Range(timeSlots)

Columns == Range(columns)

\* Array.prototype.includes
Includes(s, x) == \E i \in DOMAIN s : s[i] = x

\* Array.prototype.indexOf (1-based; 0 when absent)
IndexOf(s, x) == IF Includes(s, x)
                 THEN CHOOSE i \in DOMAIN s : s[i] = x /\ \A j \in 1..(i-1) : s[j] # x
                 ELSE 0

\* Array.prototype.sort with a numeric comparator a.key - b.key.  The sort is
\* stable: elements of equal key keep their order.  Pairs are << key, item >>.
RECURSIVE InsertByKey(_, _)
InsertByKey(s, p) ==
  IF s = << >> THEN << p >>
  ELSE IF Head(s)[1] <= p[1] THEN << Head(s) >> \o InsertByKey(Tail(s), p)
  ELSE << p >> \o s

RECURSIVE SortPairs(_, _)
SortPairs(acc, rest) ==
  IF rest = << >> THEN acc ELSE SortPairs(InsertByKey(acc, Head(rest)), Tail(rest))

RECURSIVE Seconds(_)
Seconds(pairs) == IF pairs = << >> THEN << >> ELSE << Head(pairs)[2] >> \o Seconds(Tail(pairs))

StableSort(items, keys) ==
  Seconds(SortPairs(<< >>, [ i \in DOMAIN items |-> << keys[i], items[i] >> ]))

isCellDisabled(d, slot, column) ==
  IF column # "MT" THEN FALSE
  ELSE IF d = "Saturday" \/ d = "Sunday"
       THEN Includes(WEEKEND_MT_DISABLED, slot)
       ELSE Includes(WEEKDAY_MT_DISABLED, slot)

----------------------------------------------------------------------------
(* Dispatcher records and their optional fields (appTypes) *)

Has(d, f) == f \in DOMAIN d

\* a boolean flag read for its truthiness
Flag(d, f) == Has(d, f) /\ d[f] = TRUE

\* a string field read for its truthiness: absent and "" are both falsy
Str(d, f) == IF Has(d, f) THEN d[f] ELSE ""

\* an array field read as (field || [])
List(d, f) == IF Has(d, f) THEN d[f] ELSE << >>

\* extractBadgeNumber(id): the first run of digits of the id or, without one,
\* the sum of its character codes modulo 10000.
idDigits == [ x \in {"D3016"} |-> 3016 ]

idCharSum == [ x \in {"A", "B", "C", "T", "V", "X"} |->
                 CASE x = "A" -> 65 [] x = "B" -> 66 [] x = "C" -> 67
                   [] x = "T" -> 84 [] x = "V" -> 86 [] x = "X" -> 88 ]

extractBadgeNumber(id) ==
  IF id \in DOMAIN idDigits THEN idDigits[id] ELSE idCharSum[id] % 10000

----------------------------------------------------------------------------
(* shiftUtils.ts *)

SHIFT_SLOTS ==
  [ A |-> << "0330-0530", "0530-0730", "0730-0930", "0930-1130", "1130-1330" >>,
    B |-> << "0730-0930", "0930-1130", "1130-1330", "1330-1530", "1530-1730" >>,
    C |-> << "1130-1330", "1330-1530", "1530-1730", "1730-1930", "1930-2130" >>,
    D |-> << "1330-1530", "1530-1730", "1730-1930", "1930-2130", "2130-2330" >>,
    E |-> << "1730-1930", "1930-2130", "2130-2330", "2330-0130", "0130-0330" >>,
    F |-> << "2130-2330", "2330-0130", "0130-0330", "0330-0530", "0530-0730" >> ]

OVERNIGHT_SLOTS_E == << "2330-0130", "0130-0330" >>

OVERNIGHT_SLOTS_FMutGridStart == << "0330-0530", "0530-0730", "0730-0930", "0930-1130" >>

OVERNIGHT_SLOTS_F == << "2330-0130", "0130-0330", "0330-0530", "0530-0730" >>

getEligibleSlots(d) ==
  IF Str(d, "shift") # ""
  THEN IF d.shift \in DOMAIN SHIFT_SLOTS THEN SHIFT_SLOTS[d.shift] ELSE timeSlots
  ELSE timeSlots

isSlotInShift(d, slot) ==
  IF Str(d, "shift") = "" THEN TRUE
  ELSE IF d.shift \in DOMAIN SHIFT_SLOTS THEN Includes(SHIFT_SLOTS[d.shift], slot)
  ELSE TRUE

getPreviousDayMutNext(d) ==
  LET i == IndexOf(days, d) - 1
      nextIdx == (i + 1) % Len(days)
  IN  days[nextIdx + 1]

getPreviousDay(d) ==
  LET i == IndexOf(days, d) - 1            \* 0-based index
      prevIdx == (i - 1 + Len(days)) % Len(days)
  IN  days[prevIdx + 1]

isSpilloverSlotForShift(shift, slot) ==
  IF shift = "" THEN FALSE
  ELSE IF shift = "E" THEN Includes(OVERNIGHT_SLOTS_E, slot)
  ELSE IF shift = "F" THEN Includes(OVERNIGHT_SLOTS_F, slot)
  ELSE FALSE

\* trainer is << >> (undefined) or << t >>
isEligibleOnDayForSlot(d, dy, slot, trainer) ==
  LET follow == Flag(d, "followTrainerSchedule") /\ trainer # << >>
      hasDays == IF follow /\ Has(trainer[1], "workDays") THEN TRUE ELSE Has(d, "workDays")
      effectiveDays == IF follow /\ Has(trainer[1], "workDays") THEN trainer[1].workDays
                       ELSE List(d, "workDays")
      effectiveShift == IF follow /\ Has(trainer[1], "shift") THEN trainer[1].shift
                        ELSE Str(d, "shift")
  IN  IF ~hasDays \/ Len(effectiveDays) = 0 THEN TRUE
      ELSE IF Includes(effectiveDays, dy) THEN TRUE
      ELSE effectiveShift # ""
           /\ isSpilloverSlotForShift(effectiveShift, slot)
           /\ Includes(effectiveDays, getPreviousDay(dy))

----------------------------------------------------------------------------
(* scheduleOps (src/unnamed/part_005): values *)

Empty == << >>

\* schedule[slot][col]; a property the row does not have reads as undefined,
\* which is falsy like the empty string
Cell(dv, slot, col) == IF col \in DOMAIN dv[slot] THEN dv[slot][col] ELSE Empty

\* schedule[slot][col] = v (assigning a property the row lacks creates it)
SetCell(dv, slot, col, v) ==
  [ dv EXCEPT ![slot] = [ c \in (DOMAIN @) \cup {col} |-> IF c = col THEN v ELSE @[c] ] ]

EmptyDayValue == [ s \in Slots |-> [ c \in Columns |-> Empty ] ]

\* cell.split('/').map(p => p.trim()).filter(Boolean)
Parts(cell) == SelectSeq(cell, LAMBDA p : p # "")

Participants(cell) == Range(Parts(cell))

\* dispatchers.find(d => d.id === base || d.name === base), as an index (0: none)
findDispatcherByIdentifier(identifier, disp) ==
  IF \E i \in DOMAIN disp : disp[i].id = identifier \/ disp[i].name = identifier
  THEN CHOOSE i \in DOMAIN disp :
         /\ disp[i].id = identifier \/ disp[i].name = identifier
         /\ \A j \in 1..(i-1) : ~(disp[j].id = identifier \/ disp[j].name = identifier)
  ELSE 0

hasAnyAssignments(dv) ==
  \E s \in Slots : \E c \in Columns : Cell(dv, s, c) # Empty

isDispatcherInTimeslot(dispatcherKey, dv, slot) ==
  \E c \in Columns : dispatcherKey \in Participants(Cell(dv, slot, c))

normalizeIdentifierToId(identifier, disp) ==
  IF identifier = "" THEN identifier
  ELSE LET m == findDispatcherByIdentifier(identifier, disp)
       IN  IF m # 0 THEN disp[m].id ELSE identifier

NormalizeCell(val, disp) ==
  IF val = Empty THEN val
  ELSE IF Parts(val) = << >> THEN val
  ELSE LET parts == Parts(val)
       IN  [ i \in DOMAIN parts |-> normalizeIdentifierToId(parts[i], disp) ]

----------------------------------------------------------------------------
(* scheduleOps: objects.  Every operator returns the new heap and the      *)
(* reference of the object it returns.                                     *)

NewRef(h) == CHOOSE r \in 1..(Cardinality(DOMAIN h) + 1) : r \notin DOMAIN h

Alloc(h, v) ==
  LET r == NewRef(h)
  IN  [ heap |-> [ x \in (DOMAIN h) \cup {r} |-> IF x = r THEN v ELSE h[x] ], ref |-> r ]

cloneScheduleDayMutAlias(h, r) == [ heap |-> h, ref |-> r ]

cloneScheduleDay(h, r) ==
  Alloc(h, [ s \in Slots |-> [ c \in Columns |-> Cell(h[r], s, c) ] ])

createEmptyScheduleDay(h) == Alloc(h, EmptyDayValue)

normalizeScheduleDayToIds(h, r, disp) ==
  LET n == cloneScheduleDay(h, r)
  IN  [ heap |-> [ n.heap EXCEPT ![n.ref] =
                     [ s \in Slots |-> [ c \in DOMAIN @[s] |-> NormalizeCell(@[s][c], disp) ] ] ],
        ref |-> n.ref ]

mergeScheduleDaysMutConflict(h, base, overlay) ==
  LET m == cloneScheduleDay(h, base)
  IN  [ heap |-> [ m.heap EXCEPT ![m.ref] =
                     [ s \in Slots |-> [ c \in DOMAIN @[s] |->
                         IF c \in Columns /\ Cell(h[overlay], s, c) # Empty
                         THEN IF @[s][c] = Empty \/ @[s][c] = Cell(h[overlay], s, c)
                              THEN Cell(h[overlay], s, c) ELSE Empty
                         ELSE @[s][c] ] ] ],
        ref |-> m.ref ]

mergeScheduleDaysMutOverlayAll(h, base, overlay) ==
  LET m == cloneScheduleDay(h, base)
  IN  [ heap |-> [ m.heap EXCEPT ![m.ref] =
                     [ s \in Slots |-> [ c \in DOMAIN @[s] |->
                         IF c \in Columns THEN Cell(h[overlay], s, c) ELSE @[s][c] ] ] ],
        ref |-> m.ref ]

mergeScheduleDays(h, base, overlay) ==
  LET m == cloneScheduleDay(h, base)
  IN  [ heap |-> [ m.heap EXCEPT ![m.ref] =
                     [ s \in Slots |-> [ c \in DOMAIN @[s] |->
                         IF c \in Columns /\ Cell(h[overlay], s, c) # Empty
                         THEN Cell(h[overlay], s, c)
                         ELSE @[s][c] ] ] ],
        ref |-> m.ref ]

----------------------------------------------------------------------------
(* dayScheduler.ts: sanitizeLockedAssignments *)

\* resolveParticipants: the indices of the dispatchers the cell's parts resolve to
resolveParticipants(value, disp) ==
  IF value = Empty THEN << >>
  ELSE SelectSeq([ i \in DOMAIN value |-> findDispatcherByIdentifier(value[i], disp) ],
                 LAMBDA x : x # 0)

\* the loop over the participants of one cell (lines 179-186)
ParticipantsValid(dy, slot, participants, disp) ==
  \A k \in DOMAIN participants :
    LET person == disp[participants[k]]
        hasTrainee == Len(participants) > 1
        isTheTrainee == hasTrainee /\ participants[k] = participants[2]
        useTrainer == Flag(person, "followTrainerSchedule") /\ isTheTrainee
        trainer == disp[participants[1]]
        trainerRef == IF useTrainer THEN << trainer >> ELSE << >>
        dayOk == isEligibleOnDayForSlot(person, dy, slot, trainerRef)
        shiftSubject == IF useTrainer /\ Str(trainer, "shift") # ""
                        THEN [ shift |-> trainer.shift ] ELSE person
        shiftOk == isSlotInShift(shiftSubject, slot)
    IN  dayOk /\ shiftOk

SanitizeCellMutKeepDisabled(dy, slot, col, val, seen, disp) ==
  IF val = Empty THEN [ val |-> val, seen |-> seen ]
  ELSE LET participants == resolveParticipants(val, disp)
       IN  IF Len(participants) = 0 THEN [ val |-> Empty, seen |-> seen ]
           ELSE LET trainerKey == disp[participants[1]].id
                    valid == ParticipantsValid(dy, slot, participants, disp)
                             /\ trainerKey \notin seen
                IN  IF ~valid THEN [ val |-> Empty, seen |-> seen ]
                    ELSE [ val |-> val, seen |-> seen \cup {trainerKey} ]

SanitizeCellMutMarkInvalid(dy, slot, col, val, seen, disp) ==
  IF val = Empty THEN [ val |-> val, seen |-> seen ]
  ELSE IF isCellDisabled(dy, slot, col) THEN [ val |-> Empty, seen |-> seen ]
  ELSE LET participants == resolveParticipants(val, disp)
       IN  IF Len(participants) = 0 THEN [ val |-> Empty, seen |-> seen ]
           ELSE LET trainerKey == disp[participants[1]].id
                    valid == ParticipantsValid(dy, slot, participants, disp)
                             /\ trainerKey \notin seen
                IN  IF ~valid THEN [ val |-> Empty, seen |-> seen \cup {trainerKey} ]
                    ELSE [ val |-> val, seen |-> seen \cup {trainerKey} ]

\* the body of columns.forEach for one cell: the new value of the cell and of seen
SanitizeCell(dy, slot, col, val, seen, disp) ==
  IF val = Empty THEN [ val |-> val, seen |-> seen ]
  ELSE IF isCellDisabled(dy, slot, col) THEN [ val |-> Empty, seen |-> seen ]
  ELSE LET participants == resolveParticipants(val, disp)
       IN  IF Len(participants) = 0 THEN [ val |-> Empty, seen |-> seen ]
           ELSE LET trainerKey == disp[participants[1]].id
                    valid == ParticipantsValid(dy, slot, participants, disp)
                             /\ trainerKey \notin seen
                IN  IF ~valid THEN [ val |-> Empty, seen |-> seen ]
                    ELSE [ val |-> val, seen |-> seen \cup {trainerKey} ]

\* columns.forEach over one row, from column k on
RECURSIVE SanitizeRow(_, _, _, _, _, _)
SanitizeRow(dy, slot, row, seen, k, disp) ==
  IF k > Len(columns) THEN row
  ELSE LET r == SanitizeCell(dy, slot, columns[k], row[columns[k]], seen, disp)
       IN  SanitizeRow(dy, slot, [ row EXCEPT ![columns[k]] = r.val ], r.seen, k + 1, disp)

sanitizeLockedAssignments(h, dy, r, disp) ==
  LET n == cloneScheduleDay(h, r)
  IN  [ heap |-> [ n.heap EXCEPT ![n.ref] =
                     [ s \in Slots |-> SanitizeRow(dy, s, @[s], {}, 1, disp) ] ],
        ref |-> n.ref ]

----------------------------------------------------------------------------
(* assignmentUtils (src/unnamed/part_007) *)

\* the first element of s that satisfies P, as << x >>, or << >>
FirstWhere(s, P(_)) ==
  LET I == { i \in DOMAIN s : P(s[i]) }
  IN  IF I = {} THEN << >> ELSE << s[CHOOSE i \in I : \A j \in I : i <= j] >>

isNumber(d, f) == Has(d, f) /\ d[f] \in Int

getSeniorityRank(d) ==
  IF isNumber(d, "seniority") THEN d.seniority
  ELSE IF isNumber(d, "badgeNumber") THEN d.badgeNumber
  ELSE extractBadgeNumber(d.id)

isRadioMutRelief(c) == c # "UT"

isRadio(c) == c # "UT" /\ c # "RELIEF"

availableOnMutAnyone(d, dy) ==
  \/ Len(List(d, "workDays")) = 0
  \/ Includes(d.workDays, dy)
  \/ /\ Str(d, "shift") \in {"E", "F"}
     /\ Includes(d.workDays, getPreviousDay(dy))

\* the filter of prepareDispatchers, fallbackUtils' availableDispatchers alike
availableOn(d, dy) ==
  /\ ~Flag(d, "excludeFromAutoSchedule")
  /\ ~(Flag(d, "isTrainee") \/ Str(d, "traineeOf") # "")
  /\ \/ Len(List(d, "workDays")) = 0
     \/ Includes(d.workDays, dy)
     \/ /\ Str(d, "shift") \in {"E", "F"}
        /\ Includes(d.workDays, getPreviousDay(dy))

prepareDispatchersMutNoSort(disp, dy) ==
  SelectSeq(disp, LAMBDA d : availableOn(d, dy))

prepareDispatchers(disp, dy) ==
  LET availableDispatchers == SelectSeq(disp, LAMBDA d : availableOn(d, dy))
  IN  StableSort(availableDispatchers,
                 [ i \in DOMAIN availableDispatchers |-> getSeniorityRank(availableDispatchers[i]) ])

hasPreferences(d) ==
  Len(List(d, "preferredChannels")) > 0 \/ Len(List(d, "preferredTimeBlocks")) > 0

generatePreferredAssignmentsMutChannelMajor(d, dv) ==
  LET hasChannelPrefs == Len(List(d, "preferredChannels")) > 0
      hasTimePrefs == Len(List(d, "preferredTimeBlocks")) > 0
      eligibleSlots == getEligibleSlots(d)
      rawChannelPrefs == IF hasChannelPrefs THEN d.preferredChannels ELSE columns
      channelPrefs == SelectSeq(rawChannelPrefs, isRadio)
      timePrefs == IF hasTimePrefs THEN d.preferredTimeBlocks ELSE eligibleSlots
      channelWeightBase == Len(channelPrefs) + 1
      nC == Len(channelPrefs)
      all == [ k \in 1..(Len(timePrefs) * nC) |->
                 LET timeIdx == (k - 1) \div nC
                     channelIdx == (k - 1) % nC
                 IN  [ slot |-> timePrefs[timeIdx + 1], col |-> channelPrefs[channelIdx + 1],
                       priority |-> channelIdx * (Len(timePrefs) + 1) + timeIdx ] ]
      assignments == SelectSeq(all, LAMBDA a : Includes(eligibleSlots, a.slot)
                                               /\ Cell(dv, a.slot, a.col) = Empty)
  IN  StableSort(assignments, [ i \in DOMAIN assignments |-> assignments[i].priority ])

generatePreferredAssignments(d, dv) ==
  LET hasChannelPrefs == Len(List(d, "preferredChannels")) > 0
      hasTimePrefs == Len(List(d, "preferredTimeBlocks")) > 0
      eligibleSlots == getEligibleSlots(d)
      rawChannelPrefs == IF hasChannelPrefs THEN d.preferredChannels ELSE columns
      channelPrefs == SelectSeq(rawChannelPrefs, isRadio)
      timePrefs == IF hasTimePrefs THEN d.preferredTimeBlocks ELSE eligibleSlots
      channelWeightBase == Len(channelPrefs) + 1
      nC == Len(channelPrefs)
      all == [ k \in 1..(Len(timePrefs) * nC) |->
                 LET timeIdx == (k - 1) \div nC
                     channelIdx == (k - 1) % nC
                 IN  [ slot |-> timePrefs[timeIdx + 1], col |-> channelPrefs[channelIdx + 1],
                       priority |-> timeIdx * channelWeightBase + channelIdx ] ]
      assignments == SelectSeq(all, LAMBDA a : Includes(eligibleSlots, a.slot)
                                               /\ Cell(dv, a.slot, a.col) = Empty)
  IN  StableSort(assignments, [ i \in DOMAIN assignments |-> assignments[i].priority ])

\* slotFillCount and colFillCount of the balancing search
slotFillCount(dv, s) == Cardinality({ c \in Columns : isRadio(c) /\ Cell(dv, s, c) # Empty })

colFillCount(dv, c) == Cardinality({ s \in Slots : Cell(dv, s, c) # Empty })

\* the balancing search of assignMinimumSlot (lines 133-178) and of
\* assignExtraRadioSlot (lines 265-309): << [slot, col] >> or << >>
BalancedChoiceMutFirstFit(d, dv, dy) ==
  LET eligibleSlots == getEligibleSlots(d)
      candidateCols(slot) ==
        SelectSeq(columns, LAMBDA c : isRadio(c) /\ Cell(dv, slot, c) = Empty
                                      /\ ~isCellDisabled(dy, slot, c))
      usable(slot) == /\ isEligibleOnDayForSlot(d, dy, slot, << >>)
                      /\ ~isDispatcherInTimeslot(d.id, dv, slot)
                      /\ Len(candidateCols(slot)) > 0
      pick == FirstWhere(eligibleSlots, usable)
  IN  IF pick = << >> THEN << >>
      ELSE << [ slot |-> pick[1], col |-> candidateCols(pick[1])[1], priority |-> 0 ] >>

BalancedChoice(d, dv, dy) ==
  LET eligibleSlots == getEligibleSlots(d)
      sortedEligibleSlots ==
        StableSort(eligibleSlots, [ i \in DOMAIN eligibleSlots |-> slotFillCount(dv, eligibleSlots[i]) ])
      candidateCols(slot) ==
        SelectSeq(columns, LAMBDA c : isRadio(c) /\ Cell(dv, slot, c) = Empty
                                      /\ ~isCellDisabled(dy, slot, c))
      usable(slot) == /\ isEligibleOnDayForSlot(d, dy, slot, << >>)
                      /\ ~isDispatcherInTimeslot(d.id, dv, slot)
                      /\ Len(candidateCols(slot)) > 0
      pick == FirstWhere(sortedEligibleSlots, usable)
  IN  IF pick = << >> THEN << >>
      ELSE LET cols == candidateCols(pick[1])
               byFill == StableSort(cols, [ i \in DOMAIN cols |-> colFillCount(dv, cols[i]) ])
           IN  << [ slot |-> pick[1], col |-> byFill[1], priority |-> 0 ] >>

assignMinimumSlotMutNone(d, dv, dy) == << >>

assignMinimumSlot(d, dv, dy) == BalancedChoice(d, dv, dy)

assignPreferredSlot(d, dv, dy) ==
  FirstWhere(generatePreferredAssignments(d, dv),
             LAMBDA a : /\ isEligibleOnDayForSlot(d, dy, a.slot, << >>)
                        /\ ~isCellDisabled(dy, a.slot, a.col)
                        /\ ~isDispatcherInTimeslot(d.id, dv, a.slot)
                        /\ Cell(dv, a.slot, a.col) = Empty)

processDispatcherAssignmentMutSkipNoPrefs(d, dv, dy) ==
  IF ~hasPreferences(d) THEN << >>
  ELSE LET preferred == assignPreferredSlot(d, dv, dy)
       IN  IF preferred # << >> THEN preferred ELSE assignMinimumSlot(d, dv, dy)

\* processDispatcherAssignment (dayScheduler.ts): the assignment it makes
processDispatcherAssignment(d, dv, dy) ==
  IF ~hasPreferences(d) THEN assignMinimumSlot(d, dv, dy)
  ELSE LET preferred == assignPreferredSlot(d, dv, dy)
       IN  IF preferred # << >> THEN preferred ELSE assignMinimumSlot(d, dv, dy)

assignExtraRadioSlotMutSameSlot(d, dv, dy) ==
  LET preferred ==
        IF hasPreferences(d)
        THEN FirstWhere(SelectSeq(generatePreferredAssignments(d, dv), LAMBDA a : isRadio(a.col)),
                        LAMBDA a : /\ isEligibleOnDayForSlot(d, dy, a.slot, << >>)
                                   /\ a.col \in DOMAIN dv[a.slot] /\ dv[a.slot][a.col] = Empty
                                   /\ ~isCellDisabled(dy, a.slot, a.col))
        ELSE << >>
  IN  IF preferred # << >> THEN preferred ELSE BalancedChoice(d, dv, dy)

assignExtraRadioSlot(d, dv, dy) ==
  LET preferred ==
        IF hasPreferences(d)
        THEN FirstWhere(SelectSeq(generatePreferredAssignments(d, dv), LAMBDA a : isRadio(a.col)),
                        LAMBDA a : /\ isEligibleOnDayForSlot(d, dy, a.slot, << >>)
                                   /\ a.col \in DOMAIN dv[a.slot] /\ dv[a.slot][a.col] = Empty
                                   /\ ~isDispatcherInTimeslot(d.id, dv, a.slot)
                                   /\ ~isCellDisabled(dy, a.slot, a.col))
        ELSE << >>
  IN  IF preferred # << >> THEN preferred ELSE BalancedChoice(d, dv, dy)

----------------------------------------------------------------------------
(* The rosters and the hand-edited schedules the calls are made with *)

MaxRoster == 2

MaxEdits == 2

dA == [ id |-> "A", name |-> "Alice", seniority |-> 1, shift |-> "A",
        workDays |-> << "Monday" >>, preferredChannels |-> << "SW" >>,
        preferredTimeBlocks |-> << "0730-0930" >> ]

dB == [ id |-> "B", name |-> "Bob", seniority |-> 2, shift |-> "A",
        workDays |-> << "Monday" >> ]

dC == [ id |-> "C", name |-> "Cara", seniority |-> 2, shift |-> "A",
        workDays |-> << "Monday", "Saturday" >>,
        preferredChannels |-> << "SW", "MT" >>,
        preferredTimeBlocks |-> << "0730-0930", "0330-0530" >> ]

dX == [ id |-> "X", name |-> "Xena", seniority |-> 2,
        preferredChannels |-> << "SW" >>, preferredTimeBlocks |-> << "0730-0930" >> ]

dT == [ id |-> "T", name |-> "Tom", seniority |-> 3, isTrainee |-> TRUE,
        traineeOf |-> "A", followTrainerSchedule |-> TRUE ]

\* the sequences without repetition of at most n members of the set S
SeqsOf(S, n) ==
  UNION { { f \in [ 1..k -> S ] : \A i, j \in 1..k : i # j => f[i] # f[j] } : k \in 1..n }

DayCatalogue == { dA, dB, dC, dX, dT }

DayRosters == SeqsOf(DayCatalogue, MaxRoster)

\* a dispatcher of shift F who works Sunday only: Monday's first four overnight
\* slots are the spillover of its Sunday shift
dS == [ id |-> "S", name |-> "Sam", seniority |-> 5, shift |-> "F",
        workDays |-> << "Sunday" >>, preferredChannels |-> << "SW" >>,
        preferredTimeBlocks |-> << "0730-0930", "0330-0530" >> ]

SpilloverRosters == { << dS >> }

DayChoices == { "Monday", "Saturday" }

\* the cells a hand edit may have touched
DayWindow == { << "0730-0930", "SW" >>, << "0730-0930", "CE" >>, << "0330-0530", "MT" >> }

\* what a hand edit may have left in a cell: the id of the first dispatcher of
\* the roster, its name, a composite of the first with the last, an identifier
\* of no dispatcher
EditValues(disp) ==
  { << disp[1].id >>, << disp[1].name >>, << disp[Len(disp)].id, disp[1].id >>,
    << "ZZZ" >> }

Edited(edits) ==
  [ s \in Slots |-> [ c \in Columns |->
      IF << s, c >> \in DOMAIN edits THEN edits[<< s, c >>] ELSE Empty ] ]

EditSets(window, values, n) ==
  UNION { [ P -> values ] : P \in { Q \in SUBSET window : Cardinality(Q) <= n } }

\* a hand edit that names the first dispatcher of the roster in two columns of
\* one slot, in the earlier one together with the last dispatcher
SeenEdit(disp) ==
  (<< "0730-0930", "SW" >> :> << disp[1].id, disp[Len(disp)].id >>)
    @@ (<< "0730-0930", "CE" >> :> << disp[1].id >>)

NoWrite == << >>

----------------------------------------------------------------------------
(* generateScheduleForDay (dayScheduler.ts lines 27-52) *)

\* the objects still referenced after a step
Live(h, refs) == [ r \in (DOMAIN h) \cap refs |-> h[r] ]

\* the references a Schedule holds (none when the variable is unused)
RefsOf(w) == { w[d] : d \in DOMAIN w }

CallerRefs == { locked } \cup RefsOf(current)

WeekRefs == RefsOf(newSchedule) \cup RefsOf(week)

\* lines 35-36: clone the locked day or create an empty one, normalize to ids
SeedDay ==
  /\ pc = "seed"
  /\ LET c == IF locked # 0 THEN cloneScheduleDay(heap, locked)
              ELSE createEmptyScheduleDay(heap)
         n == normalizeScheduleDayToIds(c.heap, c.ref, dispatchers)
     IN  /\ schedule' = n.ref
         /\ heap' = Live(n.heap, CallerRefs \cup WeekRefs \cup { n.ref })
  /\ pc' = "sanitize"
  /\ UNCHANGED << callVars, utVars, day, locked, sorted, idx, newSchedule, seeded,
                  lastWrite >>

extraRadioDispatchersMutEveryone(ds) == ds

\* the extra-radio roster (line 118)
extraRadioDispatchers(ds) == SelectSeq(ds, LAMBDA d : ~Flag(d, "minimumRadioOnly"))

\* lines 39-42: sanitize the locked assignments, prepare the roster
SanitizeDay ==
  /\ pc = "sanitize"
  /\ LET z == sanitizeLockedAssignments(heap, day, schedule, dispatchers)
         ds == prepareDispatchers(dispatchers, day)
     IN  /\ schedule' = z.ref
         /\ heap' = Live(z.heap, CallerRefs \cup WeekRefs \cup { z.ref })
         /\ sorted' = ds
         /\ seeded' = z.heap[z.ref]
         /\ pc' = IF Len(ds) = 0 THEN "return" ELSE "primary"
  /\ idx' = 1
  /\ UNCHANGED << callVars, utVars, day, locked, newSchedule, lastWrite >>

\* an assignment step: the write into the working day, and its record
Assign(res, d, pass) ==
  /\ heap' = IF res = << >> THEN heap
             ELSE [ heap EXCEPT ![schedule] = SetCell(@, res[1].slot, res[1].col, << d.id >>) ]
  /\ lastWrite' = << [ who |-> d.id, pass |-> pass, res |-> res, before |-> heap[schedule] ] >>

PrimaryStepMutExtraInline ==
  /\ pc = "primary"
  /\ idx <= Len(sorted)
  /\ LET d == sorted[idx]
         r1 == processDispatcherAssignment(d, heap[schedule], day)
         dv1 == IF r1 = << >> THEN heap[schedule]
                ELSE SetCell(heap[schedule], r1[1].slot, r1[1].col, << d.id >>)
         r2 == assignExtraRadioSlot(d, dv1, day)
     IN  /\ heap' = [ heap EXCEPT ![schedule] =
                        IF r2 = << >> THEN dv1
                        ELSE SetCell(dv1, r2[1].slot, r2[1].col, << d.id >>) ]
         /\ lastWrite' = << [ who |-> d.id, pass |-> "extra", res |-> r2, before |-> dv1 ] >>
  /\ IF idx < Len(sorted)
     THEN /\ idx' = idx + 1
          /\ UNCHANGED << pc, sorted >>
     ELSE /\ idx' = 1
          /\ sorted' = extraRadioDispatchers(sorted)
          /\ pc' = IF Len(extraRadioDispatchers(sorted)) = 0 THEN "return" ELSE "extra"
  /\ UNCHANGED << callVars, utVars, day, locked, schedule, newSchedule, seeded >>

\* one iteration of processDispatcherAssignments' loop (lines 65-73)
PrimaryStep ==
  /\ pc = "primary"
  /\ idx <= Len(sorted)
  /\ Assign(processDispatcherAssignment(sorted[idx], heap[schedule], day), sorted[idx], "primary")
  /\ IF idx < Len(sorted)
     THEN /\ idx' = idx + 1
          /\ UNCHANGED << pc, sorted >>
     ELSE /\ idx' = 1
          /\ sorted' = extraRadioDispatchers(sorted)
          /\ pc' = IF Len(extraRadioDispatchers(sorted)) = 0 THEN "return" ELSE "extra"
  /\ UNCHANGED << callVars, utVars, day, locked, schedule, newSchedule, seeded >>

\* one iteration of processExtraRadioAssignments' loop (lines 122-129)
ExtraStep ==
  /\ pc = "extra"
  /\ idx <= Len(sorted)
  /\ Assign(assignExtraRadioSlot(sorted[idx], heap[schedule], day), sorted[idx], "extra")
  /\ IF idx < Len(sorted)
     THEN /\ idx' = idx + 1
          /\ pc' = pc
     ELSE /\ idx' = 1
          /\ pc' = "return"
  /\ UNCHANGED << callVars, utVars, day, locked, schedule, sorted, newSchedule,
                  seeded >>

\* line 51 when generateScheduleForDay was the call made
ReturnDay ==
  /\ pc = "return"
  /\ mode = "day"
  /\ pc' = "done"
  /\ UNCHANGED << callVars, utVars, heap, day, locked, schedule, sorted, idx,
                  newSchedule, seeded, lastWrite >>

InitDay ==
  /\ mode = "day"
  /\ pc = "seed"
  /\ dispatchers \in DayRosters \cup SpilloverRosters
  /\ day \in DayChoices
  /\ \E e \in EditSets(DayWindow, EditValues(dispatchers), MaxEdits) \cup { SeenEdit(dispatchers) } :
       \E l \in (IF DOMAIN e = {} THEN {0, 1} ELSE {1}) :
         /\ locked = l
         /\ heap = IF l = 0 THEN << >> ELSE << Edited(e) >>
         /\ input = IF l = 0 THEN << >> ELSE << Edited(e) >>
  /\ current = << >>
  /\ schedule = 0
  /\ sorted = << >>
  /\ idx = 0
  /\ newSchedule = << >>
  /\ week = << >>
  /\ utAssignments = << >>
  /\ remaining = << >>
  /\ slotIndex = 0
  /\ run = 1
  /\ firstOut = << >>
  /\ seeded = << >>
  /\ querySlot = ""
  /\ answer = << >>
  /\ lastWrite = NoWrite

NextDay == SeedDay \/ SanitizeDay \/ PrimaryStep \/ ExtraStep \/ ReturnDay

SpecDay == InitDay /\ [][NextDay]_vars

----------------------------------------------------------------------------
(* Properties of generateScheduleForDay *)

rosterIds == { dispatchers[i].id : i \in DOMAIN dispatchers }

\* the columns of slot s in which id is a participant
ColumnsOf(dv, s, id) == { c \in Columns : id \in Participants(Cell(dv, s, c)) }

NoDoubleBooking(dv) ==
  \A s \in Slots : \A id \in rosterIds : Cardinality(ColumnsOf(dv, s, id)) <= 1

DisabledEmpty(dy, dv) ==
  \A s \in Slots : \A c \in Columns : isCellDisabled(dy, s, c) => Cell(dv, s, c) = Empty

DayReturned == mode = "day" /\ pc = "done"

\* C1: the day generateScheduleForDay returns has no slot in which one
\* dispatcher id is a participant of more than one column, whatever the locked
\* input (composite cells included).
C1_NoDoubleBookingDay == DayReturned => NoDoubleBooking(heap[schedule])

\* C3: every cell for which isCellDisabled(day, slot, channel) is true is empty
\* in the day generateScheduleForDay returns.
C3_DisabledEmptyDay == DayReturned => DisabledEmpty(day, heap[schedule])

\* C3 witness: the call returned for a locked day that held a value in a
\* disabled cell.
C3_Witness ==
  /\ DayReturned
  /\ locked # 0
  /\ \E s \in Slots : \E c \in Columns :
       isCellDisabled(day, s, c) /\ input[1][s][c] # Empty

\* The ranked preferred combinations of a dispatcher, stated from the ranking
\* rule: time blocks (default: the shift's slots) by channels (default: all),
\* UT and RELIEF removed; a combination is available when its slot is in the
\* shift, its cell is empty and not disabled, the dispatcher is eligible for
\* the slot on the day and is not yet a participant of the slot.
PrefChannels(d) ==
  SelectSeq(IF Len(List(d, "preferredChannels")) > 0 THEN d.preferredChannels ELSE columns,
            isRadio)

PrefTimes(d) ==
  IF Len(List(d, "preferredTimeBlocks")) > 0 THEN d.preferredTimeBlocks
  ELSE getEligibleSlots(d)

AvailablePrefs(d, dv, dy) ==
  { tc \in (DOMAIN PrefTimes(d)) \X (DOMAIN PrefChannels(d)) :
      LET sl == PrefTimes(d)[tc[1]]
          ch == PrefChannels(d)[tc[2]]
      IN  /\ Includes(getEligibleSlots(d), sl)
          /\ Cell(dv, sl, ch) = Empty
          /\ ~isCellDisabled(dy, sl, ch)
          /\ isEligibleOnDayForSlot(d, dy, sl, << >>)
          /\ ~isDispatcherInTimeslot(d.id, dv, sl) }

PrefPriority(d, tc) == (tc[1] - 1) * (Len(PrefChannels(d)) + 1) + (tc[2] - 1)

\* the best available preferred cell, << slot, col >>, or << >> when none
BestPref(d, dv, dy) ==
  LET avail == AvailablePrefs(d, dv, dy)
  IN  IF avail = {} THEN << >>
      ELSE LET best == CHOOSE tc \in avail :
                         \A other \in avail : PrefPriority(d, tc) <= PrefPriority(d, other)
           IN  << PrefTimes(d)[best[1]], PrefChannels(d)[best[2]] >>

\* the slots the balancing search may use, and the channels of such a slot
UsableSlots(d, dv, dy) ==
  { sl \in Range(getEligibleSlots(d)) :
      /\ isEligibleOnDayForSlot(d, dy, sl, << >>)
      /\ ~isDispatcherInTimeslot(d.id, dv, sl)
      /\ \E c \in Columns : isRadio(c) /\ Cell(dv, sl, c) = Empty /\ ~isCellDisabled(dy, sl, c) }

RadioFill(dv, sl) == Cardinality({ c \in Columns : isRadio(c) /\ Cell(dv, sl, c) # Empty })

ChannelFill(dv, c) == Cardinality({ sl \in Slots : Cell(dv, sl, c) # Empty })

\* (sl, c) is a minimum-slot assignment of d: a least-filled usable slot and,
\* within it, a least-used empty, non-disabled radio channel
IsMinimumSlot(d, dv, dy, sl, c) ==
  /\ sl \in UsableSlots(d, dv, dy)
  /\ \A s2 \in UsableSlots(d, dv, dy) : RadioFill(dv, sl) <= RadioFill(dv, s2)
  /\ isRadio(c) /\ Cell(dv, sl, c) = Empty /\ ~isCellDisabled(dy, sl, c)
  /\ \A c2 \in Columns :
       (isRadio(c2) /\ Cell(dv, sl, c2) = Empty /\ ~isCellDisabled(dy, sl, c2))
         => ChannelFill(dv, c) <= ChannelFill(dv, c2)

ResultCell(w) == IF w.res = << >> THEN << >> ELSE << w.res[1].slot, w.res[1].col >>

PrimaryBegun == (pc = "primary" /\ idx > 1) \/ pc \in { "extra", "return", "done" }

\* two dispatchers of explicit seniority 1 and 2, both in the prepared roster
\* and both with preferences, d1 the only one of rank 1 or better, whose best
\* available preferred cell at the start of the primary pass is the same cell
Contest(d1, d2) ==
  /\ Has(d1, "seniority") /\ d1.seniority = 1
  /\ Has(d2, "seniority") /\ d2.seniority = 2
  /\ availableOn(d1, day) /\ availableOn(d2, day)
  /\ hasPreferences(d1) /\ hasPreferences(d2)
  /\ \A i \in DOMAIN dispatchers :
       (availableOn(dispatchers[i], day) /\ getSeniorityRank(dispatchers[i]) <= 1)
         => dispatchers[i] = d1
  /\ seeded # << >>
  /\ BestPref(d1, seeded, day) # << >>
  /\ BestPref(d1, seeded, day) = BestPref(d2, seeded, day)

\* C9: when the dispatchers of seniority 1 and 2 have the same best available
\* preferred cell, the primary pass gives that cell to the seniority-1
\* dispatcher and gives the seniority-2 dispatcher its best preferred
\* combination still available at its turn or, if none, a minimum-slot
\* assignment, whatever their order in the input array.
C9_SeniorityOrdering ==
  \A i1, i2 \in DOMAIN dispatchers :
    LET d1 == dispatchers[i1]
        d2 == dispatchers[i2]
    IN  (mode = "day" /\ Contest(d1, d2)) =>
          LET x == BestPref(d1, seeded, day)
          IN  /\ PrimaryBegun => Cell(heap[schedule], x[1], x[2]) = << d1.id >>
              /\ (lastWrite # NoWrite /\ lastWrite[1].who = d2.id /\ lastWrite[1].pass = "primary")
                   => LET w == lastWrite[1]
                          next == BestPref(d2, w.before, day)
                      IN  /\ ResultCell(w) # x
                          /\ next # << >> => ResultCell(w) = next
                          /\ next = << >> =>
                               IF ResultCell(w) = << >>
                               THEN UsableSlots(d2, w.before, day) = {}
                               ELSE IsMinimumSlot(d2, w.before, day, ResultCell(w)[1], ResultCell(w)[2])

\* C9 witness: the seniority-2 dispatcher stands first in the input array, lost
\* the contested cell and has just received its next-ranked preferred cell.
C9_Witness ==
  /\ mode = "day"
  /\ Len(dispatchers) = 2
  /\ Contest(dispatchers[2], dispatchers[1])
  /\ lastWrite # NoWrite
  /\ lastWrite[1].who = dispatchers[1].id
  /\ lastWrite[1].pass = "primary"
  /\ ResultCell(lastWrite[1]) # << >>
  /\ ResultCell(lastWrite[1]) = BestPref(dispatchers[1], lastWrite[1].before, day)

\* C9 witness of the other branch: the seniority-2 dispatcher had no preferred
\* combination left and received a minimum-slot assignment.
C9_WitnessMinimum ==
  /\ mode = "day"
  /\ Len(dispatchers) = 2
  /\ Contest(dispatchers[2], dispatchers[1])
  /\ lastWrite # NoWrite
  /\ lastWrite[1].who = dispatchers[1].id
  /\ lastWrite[1].pass = "primary"
  /\ ResultCell(lastWrite[1]) # << >>
  /\ BestPref(dispatchers[1], lastWrite[1].before, day) = << >>

\* the scenario of C10: generateScheduleForDay('Monday', [A, B]), no locked input
Scenario == mode = "day" /\ dispatchers = << dA, dB >> /\ day = "Monday" /\ locked = 0

\* C10: in the scenario A is placed in 0730-0930/SW, and every placement of B
\* is in a shift-A slot whose radio occupancy is minimal among the shift-A
\* slots at that moment and, within it, in an empty, non-disabled radio channel
\* whose day-wide occupancy is minimal.
C10_Scenario ==
  Scenario =>
    /\ PrimaryBegun => Cell(heap[schedule], "0730-0930", "SW") = << "A" >>
    /\ pc = "done" => \E sl \in Slots : ColumnsOf(heap[schedule], sl, "B") # {}
    /\ (lastWrite # NoWrite /\ lastWrite[1].who = "B") =>
         LET w == lastWrite[1]
             sl == ResultCell(w)[1]
             c == ResultCell(w)[2]
         IN  /\ w.res # << >>
             /\ Includes(SHIFT_SLOTS.A, sl)
             /\ \A s2 \in Range(SHIFT_SLOTS.A) : RadioFill(w.before, sl) <= RadioFill(w.before, s2)
             /\ isRadio(c) /\ Cell(w.before, sl, c) = Empty /\ ~isCellDisabled(day, sl, c)
             /\ \A c2 \in Columns :
                  (isRadio(c2) /\ Cell(w.before, sl, c2) = Empty /\ ~isCellDisabled(day, sl, c2))
                    => ChannelFill(w.before, c) <= ChannelFill(w.before, c2)

\* C10 witness: the scenario's call returned with B placed by the primary pass.
C10_Witness ==
  /\ Scenario
  /\ pc = "done"
  /\ Cell(heap[schedule], "0730-0930", "SW") = << "A" >>
  /\ Cell(heap[schedule], "0330-0530", "CE") = << "B" >>

----------------------------------------------------------------------------
(* fallbackUtils.ts: applyShiftAwareFallback *)

\* the participants already placed in the slot (lines 105-111)
UsedIn(dv, slot) == UNION { Participants(Cell(dv, slot, c)) : c \in Columns }

\* the columns the fallback assigns across (line 114)
FallbackCols(dy, slot) ==
  SelectSeq(columns, LAMBDA c : c # "UT" /\ c # "RELIEF" /\ ~isCellDisabled(dy, slot, c))

\* the forEach over the columns of one slot (lines 114-137), from column k on;
\* st is [dv, rrCursor, used]
RECURSIVE FallbackRow(_, _, _, _, _, _)
FallbackRow(slot, slotIdx, eligibleForSlot, cols, k, st) ==
  IF k > Len(cols) THEN st
  ELSE IF Cell(st.dv, slot, cols[k]) # Empty
       THEN FallbackRow(slot, slotIdx, eligibleForSlot, cols, k + 1, st)
       ELSE LET N == Len(eligibleForSlot)
                at(kk) == (st.rrCursor + slotIdx + kk) % N
                ok(kk) == LET key == eligibleForSlot[at(kk) + 1].id
                          IN  key \notin st.used /\ ~isDispatcherInTimeslot(key, st.dv, slot)
                K == { kk \in 0..(N - 1) : ok(kk) }
            IN  IF K = {} THEN FallbackRow(slot, slotIdx, eligibleForSlot, cols, k + 1, st)
                ELSE LET kk == CHOOSE x \in K : \A y \in K : x <= y
                         key == eligibleForSlot[at(kk) + 1].id
                     IN  FallbackRow(slot, slotIdx, eligibleForSlot, cols, k + 1,
                                     [ dv |-> SetCell(st.dv, slot, cols[k], << key >>),
                                       rrCursor |-> (at(kk) + 1) % N,
                                       used |-> st.used \cup { key } ])

\* timeSlots.forEach (lines 95-138), from slot index slotIdx (0-based) on
RECURSIVE FallbackSlots(_, _, _, _, _)
FallbackSlots(dy, availableDispatchers, slotIdx, dv, rrCursor) ==
  IF slotIdx >= Len(timeSlots) THEN dv
  ELSE LET slot == timeSlots[slotIdx + 1]
           eligibleForSlot ==
             SelectSeq(availableDispatchers,
                       LAMBDA d : isSlotInShift(d, slot) /\ isEligibleOnDayForSlot(d, dy, slot, << >>))
       IN  IF Len(eligibleForSlot) = 0
           THEN FallbackSlots(dy, availableDispatchers, slotIdx + 1, dv, rrCursor)
           ELSE LET st == FallbackRow(slot, slotIdx, eligibleForSlot, FallbackCols(dy, slot), 1,
                                      [ dv |-> dv, rrCursor |-> rrCursor, used |-> UsedIn(dv, slot) ])
                IN  FallbackSlots(dy, availableDispatchers, slotIdx + 1, st.dv, st.rrCursor)

applyShiftAwareFallback(h, dy, disp, r) ==
  LET availableDispatchers == SelectSeq(disp, LAMBDA d : availableOn(d, dy))
  IN  IF Len(availableDispatchers) = 0 THEN [ heap |-> h, ref |-> r ]
      ELSE LET n == normalizeScheduleDayToIds(h, r, disp)
           IN  [ heap |-> [ n.heap EXCEPT ![n.ref] = FallbackSlots(dy, availableDispatchers, 0, @, 0) ],
                 ref |-> n.ref ]

----------------------------------------------------------------------------
(* glpkScheduler.ts: the week scheduler's operations on the heap *)

\* the values of the days a Schedule refers to
WeekValue(h, w) == [ d \in Days |-> h[w[d]] ]

\* days.forEach(day => cloned[day] = cloneScheduleDay(schedule[day])), from day k on
RECURSIVE CloneDays(_, _, _)
CloneDays(h, sched, k) ==
  IF k > Len(days) THEN [ heap |-> h, week |-> << >> ]
  ELSE LET c == cloneScheduleDay(h, sched[days[k]])
           rest == CloneDays(c.heap, sched, k + 1)
       IN  [ heap |-> rest.heap, week |-> (days[k] :> c.ref) @@ rest.week ]

cloneWeeklySchedule(h, sched) == CloneDays(h, sched, 1)

\* days.forEach(d => cloned[d] = normalizeScheduleDayToIds(week[d], dispatchers))
RECURSIVE NormalizeDays(_, _, _, _)
NormalizeDays(h, w, disp, k) ==
  IF k > Len(days) THEN [ heap |-> h, week |-> << >> ]
  ELSE LET n == normalizeScheduleDayToIds(h, w[days[k]], disp)
           rest == NormalizeDays(n.heap, w, disp, k + 1)
       IN  [ heap |-> rest.heap, week |-> (days[k] :> n.ref) @@ rest.week ]

normalizeScheduleWeekToIds(h, w, disp) == NormalizeDays(h, w, disp, 1)

\* processDaySchedule after the day is solved (lines 300-319): merge over the
\* caller's day, and the shift-aware fallback when the merged day is empty
processDaySchedule(h, dy, disp, currentDaySchedule, solvedDay) ==
  LET mergedDay == mergeScheduleDays(h, currentDaySchedule, solvedDay)
      hasAssignments == hasAnyAssignments(mergedDay.heap[mergedDay.ref])
  IN  IF ~hasAssignments THEN applyShiftAwareFallback(mergedDay.heap, dy, disp, mergedDay.ref)
      ELSE mergedDay

----------------------------------------------------------------------------
(* utAssignmentUtils (src/unnamed/part_006) *)

\* getSenioritySortKey; the branch for a badgeNumber held as a string applies
\* to no ExtendedDispatcher, whose badgeNumber is a number
getSenioritySortKey(d) ==
  IF isNumber(d, "seniority") THEN d.seniority
  ELSE IF isNumber(d, "badgeNumber") THEN d.badgeNumber
  ELSE extractBadgeNumber(d.id)

\* idByAny.get(key) || key: the map is filled in roster order, id then name,
\* so the last dispatcher that carries the key decides
idByAny(key, disp) ==
  LET I == { i \in DOMAIN disp : (disp[i].id # "" /\ disp[i].id = key)
                                 \/ (disp[i].name # "" /\ disp[i].name = key) }
  IN  IF I = {} THEN key ELSE disp[CHOOSE i \in I : \A j \in I : j <= i].id

\* the key under which an existing UT cell is counted (lines 47-49): the whole
\* cell string, looked up in idByAny.  A key is held as the token sequence of
\* the string, so a dispatcher id k is the key << k >>
utKey(cell, disp) == IF Len(cell) = 1 THEN << idByAny(cell[1], disp) >> ELSE cell

\* every (day, slot) of the week in Object.entries order, slot by slot
weekSlots == [ k \in 1..(Len(days) * Len(timeSlots)) |->
                 [ day |-> days[((k - 1) \div Len(timeSlots)) + 1],
                   slot |-> timeSlots[((k - 1) % Len(timeSlots)) + 1] ] ]

\* lines 45-54: count the existing UT assignments
countExistingUT(wv, disp) ==
  LET filled == SelectSeq(weekSlots, LAMBDA p : Cell(wv[p.day], p.slot, "UT") # Empty)
      keyAt(i) == utKey(wv[filled[i].day][filled[i].slot]["UT"], disp)
  IN  [ k \in { keyAt(i) : i \in DOMAIN filled } |->
          Cardinality({ i \in DOMAIN filled : keyAt(i) = k }) ]

\* utAssignments.get(id) || 0
utCount(ut, id) == IF << id >> \in DOMAIN ut THEN ut[<< id >>] ELSE 0

\* utAssignments.set(id, n)
utSet(ut, id, n) == [ k \in (DOMAIN ut) \cup { << id >> } |-> IF k = << id >> THEN n ELSE ut[k] ]

\* the filter of line 58
utEligible(d) ==
  /\ Len(List(d, "workDays")) > 0
  /\ ~Flag(d, "excludeFromAutoSchedule")
  /\ ~(Flag(d, "isTrainee") \/ Str(d, "traineeOf") # "")

\* lines 57-59
utSortedDispatchers(disp) ==
  LET eligible == SelectSeq(disp, utEligible)
  IN  StableSort(eligible, [ i \in DOMAIN eligible |-> getSenioritySortKey(eligible[i]) ])

\* weekSchedule[day][slot]['UT'] = key
setUT(wv, dy, slot, key) == [ wv EXCEPT ![dy] = SetCell(@, slot, "UT", << key >>) ]

\* assignPrimaryUTSlots, the search of one dispatcher (lines 93-112): the first
\* of its work days, and in it the first slot of its shift, whose UT cell is the
\* empty string and in whose slot the dispatcher is not yet placed
primaryUTSlot(d, wv) ==
  LET workDays == List(d, "workDays")
      eligibleSlots == getEligibleSlots(d)
      n == Len(eligibleSlots)
      candidates == [ k \in 1..(Len(workDays) * n) |->
                        [ day |-> workDays[((k - 1) \div n) + 1],
                          slot |-> eligibleSlots[((k - 1) % n) + 1] ] ]
  IN  FirstWhere(candidates,
                 LAMBDA p : /\ p.day \in Days
                            /\ wv[p.day][p.slot]["UT"] = Empty
                            /\ ~isDispatcherInTimeslot(d.id, wv[p.day], p.slot))

\* one iteration of assignPrimaryUTSlots' loop (lines 85-118)
assignPrimaryUTSlot(d, wv, ut) ==
  IF utCount(ut, d.id) # 0 THEN [ week |-> wv, ut |-> ut ]
  ELSE LET found == primaryUTSlot(d, wv)
       IN  IF found = << >> THEN [ week |-> wv, ut |-> ut ]
           ELSE [ week |-> setUT(wv, found[1].day, found[1].slot, d.id),
                  ut |-> utSet(ut, d.id, 1) ]

\* the empty UT cells of the week (lines 133-140 and 202-209)
emptyUTSlots(wv) == SelectSeq(weekSlots, LAMBDA p : wv[p.day][p.slot]["UT"] = Empty)

\* SHIFT_SLOTS[shift] || []
shiftSlotsOrNone(shift) == IF shift \in DOMAIN SHIFT_SLOTS THEN SHIFT_SLOTS[shift] ELSE << >>

fallbackUTFitsMutAnyDay(d, wv, p) ==
  /\ (Str(d, "shift") # "" => Includes(shiftSlotsOrNone(d.shift), p.slot))
  /\ ~isDispatcherInTimeslot(d.id, wv[p.day], p.slot)

\* the findIndex predicate of assignFallbackUTSlots (lines 155-174)
fallbackUTFits(d, wv, p) ==
  /\ ~(Len(List(d, "workDays")) > 0 /\ ~Includes(d.workDays, p.day))
  /\ (Str(d, "shift") # "" => Includes(shiftSlotsOrNone(d.shift), p.slot))
  /\ ~isDispatcherInTimeslot(d.id, wv[p.day], p.slot)

\* emptySlots.splice(i, 1)
RemoveAt(s, i) == [ k \in 1..(Len(s) - 1) |-> IF k < i THEN s[k] ELSE s[k + 1] ]

\* the loop of assignFallbackUTSlots (lines 151-190), from dispatcher k on
RECURSIVE FallbackUTFrom(_, _, _, _, _)
FallbackUTFrom(sortedMissing, k, wv, ut, emptySlots) ==
  IF k > Len(sortedMissing) THEN [ week |-> wv, ut |-> ut ]
  ELSE LET d == sortedMissing[k]
           I == { i \in DOMAIN emptySlots : fallbackUTFits(d, wv, emptySlots[i]) }
       IN  IF I = {} THEN FallbackUTFrom(sortedMissing, k + 1, wv, ut, emptySlots)
           ELSE LET i == CHOOSE x \in I : \A y \in I : x <= y
                    p == emptySlots[i]
                IN  FallbackUTFrom(sortedMissing, k + 1, setUT(wv, p.day, p.slot, d.id),
                                   utSet(ut, d.id, 1), RemoveAt(emptySlots, i))

assignFallbackUTSlots(wv, missingDispatchers, ut) ==
  LET emptySlots == emptyUTSlots(wv)
      sortedMissing ==
        StableSort(missingDispatchers,
                   [ i \in DOMAIN missingDispatchers |-> getSenioritySortKey(missingDispatchers[i]) ])
  IN  IF Len(emptySlots) = 0 THEN [ week |-> wv, ut |-> ut ]
      ELSE FallbackUTFrom(sortedMissing, 1, wv, ut, emptySlots)

\* lines 65-69 of assignUTSlots
rescueMissingUT(wv, sortedDispatchers, ut) ==
  LET missingUT == SelectSeq(sortedDispatchers, LAMBDA d : utCount(ut, d.id) = 0)
  IN  IF Len(missingUT) > 0 THEN assignFallbackUTSlots(wv, missingUT, ut)
      ELSE [ week |-> wv, ut |-> ut ]

extraUtDispatchersMutEveryone(sortedDispatchers) == sortedDispatchers

\* line 219
extraUtDispatchers(sortedDispatchers) ==
  SelectSeq(sortedDispatchers, LAMBDA d : Flag(d, "wantsExtraUtility"))

\* the tests of the extra pass for one volunteer and the slot at slotIndex
\* (lines 239-252)
extraUTFits(d, wv, p) ==
  /\ ~(Len(List(d, "workDays")) > 0 /\ ~Includes(d.workDays, p.day))
  /\ ~(Str(d, "shift") # "" /\ ~Includes(shiftSlotsOrNone(d.shift), p.slot))
  /\ ~isDispatcherInTimeslot(d.id, wv[p.day], p.slot)

\* the for loop of one cycle of the extra pass (lines 231-260), from volunteer
\* k on; st is [week, ut, slotIndex, progress, broke]
RECURSIVE ExtraCycleFrom(_, _, _, _)
ExtraCycleFrom(volunteers, remainingSlots, k, st) ==
  IF k > Len(volunteers) THEN st
  ELSE IF st.slotIndex >= Len(remainingSlots) THEN [ st EXCEPT !.broke = TRUE ]
  ELSE LET d == volunteers[k]
           p == remainingSlots[st.slotIndex + 1]
       IN  IF ~extraUTFits(d, st.week, p)
           THEN ExtraCycleFrom(volunteers, remainingSlots, k + 1, st)
           ELSE ExtraCycleFrom(volunteers, remainingSlots, k + 1,
                               [ week |-> setUT(st.week, p.day, p.slot, d.id),
                                 ut |-> utSet(st.ut, d.id, utCount(st.ut, d.id) + 1),
                                 slotIndex |-> st.slotIndex + 1,
                                 progress |-> TRUE,
                                 broke |-> FALSE ])

----------------------------------------------------------------------------
(* assignUTSlots (src/unnamed/part_006 lines 29-75), step by step *)

\* the heap after the week the balancer works on took the value wv
StoreWeek(h, w, wv) ==
  [ r \in DOMAIN h |-> IF r \in RefsOf(w) THEN wv[CHOOSE d \in Days : w[d] = r] ELSE h[r] ]

\* lines 35-59: count the existing UT cells, sort the eligible dispatchers
UTBegin ==
  /\ pc = "utBegin"
  /\ utAssignments' = countExistingUT(WeekValue(heap, week), dispatchers)
  /\ sorted' = utSortedDispatchers(dispatchers)
  /\ idx' = 1
  /\ pc' = IF Len(utSortedDispatchers(dispatchers)) = 0 THEN "utRescue" ELSE "utPrimary"
  /\ UNCHANGED << callVars, heap, day, locked, schedule, newSchedule, week, remaining,
                  slotIndex, seeded, lastWrite >>

\* one iteration of assignPrimaryUTSlots' loop
UTPrimaryStep ==
  /\ pc = "utPrimary"
  /\ idx <= Len(sorted)
  /\ LET r == assignPrimaryUTSlot(sorted[idx], WeekValue(heap, week), utAssignments)
     IN  /\ heap' = StoreWeek(heap, week, r.week)
         /\ utAssignments' = r.ut
  /\ IF idx < Len(sorted)
     THEN /\ idx' = idx + 1
          /\ pc' = pc
     ELSE /\ idx' = 1
          /\ pc' = "utRescue"
  /\ UNCHANGED << callVars, day, locked, schedule, sorted, newSchedule, week, remaining,
                  slotIndex, seeded, lastWrite >>

\* lines 65-69, and the opening of assignExtraUTSlots (lines 201-226)
UTRescue ==
  /\ pc = "utRescue"
  /\ LET r == rescueMissingUT(WeekValue(heap, week), sorted, utAssignments)
         remainingSlots == emptyUTSlots(r.week)
     IN  /\ heap' = StoreWeek(heap, week, r.week)
         /\ utAssignments' = r.ut
         /\ remaining' = remainingSlots
         /\ pc' = IF Len(remainingSlots) = 0 \/ Len(extraUtDispatchers(sorted)) = 0
                  THEN "utReturn" ELSE "utExtra"
  /\ slotIndex' = 0
  /\ UNCHANGED << callVars, day, locked, schedule, sorted, idx, newSchedule, week,
                  seeded, lastWrite >>

UTExtraCycleMutNoExit ==
  /\ pc = "utExtra"
  /\ slotIndex < Len(remaining)
  /\ LET st == ExtraCycleFrom(extraUtDispatchers(sorted), remaining, 1,
                              [ week |-> WeekValue(heap, week), ut |-> utAssignments,
                                slotIndex |-> slotIndex, progress |-> FALSE, broke |-> FALSE ])
     IN  /\ heap' = StoreWeek(heap, week, st.week)
         /\ utAssignments' = st.ut
         /\ slotIndex' = st.slotIndex
         /\ pc' = IF st.broke \/ st.slotIndex >= Len(remaining)
                  THEN "utReturn" ELSE "utExtra"
  /\ UNCHANGED << callVars, day, locked, schedule, sorted, idx, newSchedule, week,
                  remaining, seeded, lastWrite >>

\* one cycle of the extra pass: an iteration of the outer while (lines 228-267)
UTExtraCycle ==
  /\ pc = "utExtra"
  /\ slotIndex < Len(remaining)
  /\ LET st == ExtraCycleFrom(extraUtDispatchers(sorted), remaining, 1,
                              [ week |-> WeekValue(heap, week), ut |-> utAssignments,
                                slotIndex |-> slotIndex, progress |-> FALSE, broke |-> FALSE ])
     IN  /\ heap' = StoreWeek(heap, week, st.week)
         /\ utAssignments' = st.ut
         /\ slotIndex' = st.slotIndex
         /\ pc' = IF st.broke \/ ~st.progress \/ st.slotIndex >= Len(remaining)
                  THEN "utReturn" ELSE "utExtra"
  /\ UNCHANGED << callVars, day, locked, schedule, sorted, idx, newSchedule, week,
                  remaining, seeded, lastWrite >>

\* line 74 when assignUTSlots was the call made
UTReturn ==
  /\ pc = "utReturn"
  /\ mode = "ut"
  /\ pc' = "done"
  /\ UNCHANGED << callVars, utVars, heap, day, locked, schedule, sorted, idx,
                  newSchedule, seeded, lastWrite >>

----------------------------------------------------------------------------
(* generateWeeklySchedule (glpkScheduler.ts lines 257-281), step by step *)

\* line 263, and the call of generateScheduleForDay for the first day
WeekStart ==
  /\ pc = "weekStart"
  /\ LET c == cloneWeeklySchedule(heap, current)
     IN  /\ newSchedule' = c.week
         /\ heap' = c.heap
  /\ day' = days[1]
  /\ locked' = current[days[1]]
  /\ pc' = "seed"
  /\ UNCHANGED << callVars, utVars, schedule, sorted, idx, seeded, lastWrite >>

\* the rest of processDaySchedule once the day is solved, line 268, and the
\* call of generateScheduleForDay for the next day
MergeDay ==
  /\ pc = "return"
  /\ mode = "week"
  /\ LET r == processDaySchedule(heap, day, dispatchers, locked, schedule)
         ns == [ newSchedule EXCEPT ![day] = r.ref ]
     IN  /\ newSchedule' = ns
         /\ heap' = Live(r.heap, RefsOf(current) \cup RefsOf(ns))
  /\ IF IndexOf(days, day) < Len(days)
     THEN /\ day' = days[IndexOf(days, day) + 1]
          /\ locked' = current[days[IndexOf(days, day) + 1]]
          /\ pc' = "seed"
     ELSE /\ pc' = "normalize"
          /\ UNCHANGED << day, locked >>
  /\ schedule' = 0
  /\ UNCHANGED << callVars, utVars, sorted, idx, seeded, lastWrite >>

\* line 272: normalize the week to ids; assignUTSlots is called on the result
NormalizeWeek ==
  /\ pc = "normalize"
  /\ LET n == normalizeScheduleWeekToIds(heap, newSchedule, dispatchers)
     IN  /\ week' = n.week
         /\ heap' = n.heap
  /\ pc' = "utBegin"
  /\ UNCHANGED << callVars, day, locked, schedule, sorted, idx, newSchedule,
                  utAssignments, remaining, slotIndex, seeded, lastWrite >>

\* lines 275-280: newSchedule takes the normalized days and is returned
WeekReturn ==
  /\ pc = "utReturn"
  /\ mode = "week"
  /\ newSchedule' = week
  /\ heap' = Live(heap, RefsOf(current) \cup RefsOf(week))
  /\ firstOut' = IF run = 1 THEN WeekValue(heap, week) ELSE firstOut
  /\ pc' = "done"
  /\ UNCHANGED << mode, dispatchers, current, input, run, querySlot, answer, utVars,
                  day, locked, schedule, sorted, idx, seeded, lastWrite >>

\* the caller runs generateWeeklySchedule again, on the Schedule it returned
Rerun ==
  /\ pc = "done"
  /\ mode = "week"
  /\ run = 1
  /\ run' = 2
  /\ current' = newSchedule
  /\ input' = WeekValue(heap, newSchedule)
  /\ heap' = Live(heap, RefsOf(newSchedule))
  /\ newSchedule' = << >>
  /\ week' = << >>
  /\ utAssignments' = << >>
  /\ remaining' = << >>
  /\ slotIndex' = 0
  /\ sorted' = << >>
  /\ idx' = 0
  /\ locked' = 0
  /\ schedule' = 0
  /\ seeded' = << >>
  /\ lastWrite' = NoWrite
  /\ pc' = "weekStart"
  /\ UNCHANGED << mode, dispatchers, day, firstOut, querySlot, answer >>

----------------------------------------------------------------------------
(* The weeks and rosters generateWeeklySchedule and assignUTSlots are called with *)

MaxWeekEdits == 1

MaxUTEdits == 2

dV == [ id |-> "V", name |-> "Vic", seniority |-> 4, shift |-> "A",
        workDays |-> << "Monday" >>, wantsExtraUtility |-> TRUE ]

dE == [ id |-> "E", name |-> "Eve", seniority |-> 1, shift |-> "A",
        workDays |-> << "Monday" >>, excludeFromAutoSchedule |-> TRUE ]

dM == [ id |-> "M", name |-> "Max", seniority |-> 2, shift |-> "A",
        workDays |-> << "Monday" >>, minimumRadioOnly |-> TRUE ]

\* a dispatcher whose first preferred channel is no column of the grid
dW == [ id |-> "W", name |-> "Wes", seniority |-> 2, shift |-> "A",
        workDays |-> << "Monday" >>, minimumRadioOnly |-> TRUE,
        preferredChannels |-> << "XX", "SW" >>, preferredTimeBlocks |-> << "0730-0930" >> ]

WeekRosters ==
  { << dB >>, << dA, dB >>, << dB, dV >>, << dE, dT, dB >>, << dM >>, << dW >> }

\* six dispatchers without shift and work days, one of shift E who works
\* Sunday only, and a junior one without shift and work days
FullRoster ==
  [ k \in 1..6 |-> [ id |-> << "P1", "P2", "P3", "P4", "P5", "P6" >>[k],
                     name |-> << "Pat1", "Pat2", "Pat3", "Pat4", "Pat5", "Pat6" >>[k],
                     seniority |-> k ] ]
    \o << [ id |-> "N", name |-> "Ned", seniority |-> 7, shift |-> "E",
            workDays |-> << "Sunday" >> ],
          [ id |-> "P7", name |-> "Pat7", seniority |-> 8 ] >>

\* a week whose Monday radio cells of 2330-0130 and 0130-0330 are all taken,
\* whose Tuesday holds a composite with an identifier of no dispatcher, and
\* whose Sunday holds a dispatcher's name in the RELIEF column
FullWeekValue ==
  [ d \in Days |-> [ s \in Slots |-> [ c \in Columns |->
      IF d = "Monday" /\ c \notin { "UT", "RELIEF" } /\ s \in { "2330-0130", "0130-0330" }
      THEN << FullRoster[IndexOf(columns, c)].id >>
      ELSE IF d = "Tuesday" /\ c = "SW" /\ s = "0730-0930" THEN << "P1", "ZZZ" >>
      ELSE IF d = "Sunday" /\ c = "RELIEF" /\ s = "1730-1930" THEN << "Pat2" >>
      ELSE Empty ] ] ]


\* the cells of the week a hand edit may have touched
WeekWindow == { << "Monday", "0730-0930", "SW" >>, << "Monday", "0330-0530", "MT" >>,
                << "Monday", "0930-1130", "SE" >>, << "Monday", "0330-0530", "UT" >>,
                << "Saturday", "0730-0930", "MT" >> }

EmptyWeekValue == [ d \in Days |-> EmptyDayValue ]

\* a week whose Monday UT column is taken from 0530 to 1330
TightWeekValue ==
  [ d \in Days |-> [ s \in Slots |-> [ c \in Columns |->
      IF d = "Monday" /\ c = "UT" /\ s \in { "0530-0730", "0730-0930", "0930-1130", "1130-1330" }
      THEN << "ZZZ" >> ELSE Empty ] ] ]

EditedWeek(base, edits) ==
  [ d \in Days |-> [ s \in Slots |-> [ c \in Columns |->
      IF << d, s, c >> \in DOMAIN edits THEN edits[<< d, s, c >>] ELSE base[d][s][c] ] ] ]

UTRosters == { << dB, dV >>, << dA, dB >>, << dV, dC >>, << dT, dA >> }

UTWindow == { << "Monday", "0330-0530", "UT" >>, << "Monday", "0530-0730", "UT" >>,
              << "Monday", "0330-0530", "SW" >>, << "Saturday", "0330-0530", "UT" >> }

\* the caller's Schedule: one day object per day, in the order of days
CallerWeek(wv) ==
  /\ heap = [ i \in 1..Len(days) |-> wv[days[i]] ]
  /\ current = [ d \in Days |-> IndexOf(days, d) ]
  /\ input = wv

InitWeek ==
  /\ mode = "week"
  /\ pc = "weekStart"
  /\ \/ /\ dispatchers \in WeekRosters
        /\ \E e \in EditSets(WeekWindow, EditValues(dispatchers), MaxWeekEdits) :
             CallerWeek(EditedWeek(EmptyWeekValue, e))
     \/ /\ dispatchers = FullRoster
        /\ CallerWeek(FullWeekValue)
  /\ day = days[1]
  /\ locked = 0
  /\ schedule = 0
  /\ sorted = << >>
  /\ idx = 0
  /\ newSchedule = << >>
  /\ week = << >>
  /\ utAssignments = << >>
  /\ remaining = << >>
  /\ slotIndex = 0
  /\ run = 1
  /\ firstOut = << >>
  /\ seeded = << >>
  /\ querySlot = ""
  /\ answer = << >>
  /\ lastWrite = NoWrite

NextWeek ==
  \/ WeekStart \/ SeedDay \/ SanitizeDay \/ PrimaryStep \/ ExtraStep \/ MergeDay
  \/ NormalizeWeek \/ UTBegin \/ UTPrimaryStep \/ UTRescue \/ UTExtraCycle
  \/ WeekReturn \/ Rerun

SpecWeek == InitWeek /\ [][NextWeek]_vars

InitUT ==
  /\ mode = "ut"
  /\ pc = "utBegin"
  /\ dispatchers \in UTRosters
  /\ \E base \in { EmptyWeekValue, TightWeekValue } :
       \E e \in EditSets(UTWindow, EditValues(dispatchers), MaxUTEdits) :
         CallerWeek(EditedWeek(base, e))
  /\ week = [ d \in Days |-> IndexOf(days, d) ]
  /\ day = days[1]
  /\ locked = 0
  /\ schedule = 0
  /\ sorted = << >>
  /\ idx = 0
  /\ newSchedule = << >>
  /\ utAssignments = << >>
  /\ remaining = << >>
  /\ slotIndex = 0
  /\ run = 1
  /\ firstOut = << >>
  /\ seeded = << >>
  /\ querySlot = ""
  /\ answer = << >>
  /\ lastWrite = NoWrite

NextUT == UTBegin \/ UTPrimaryStep \/ UTRescue \/ UTExtraCycle \/ UTReturn

SpecUT == InitUT /\ [][NextUT]_vars

----------------------------------------------------------------------------
(* Properties of generateWeeklySchedule *)

WeekReturned == mode = "week" /\ pc = "done"

\* the Schedule generateWeeklySchedule returned
Returned == WeekValue(heap, newSchedule)

\* C2: the Schedule generateWeeklySchedule returns has no (day, slot) in which
\* one dispatcher id is a participant of more than one column, each half of a
\* composite counted.
C2_NoDoubleBookingWeek ==
  WeekReturned => \A d \in Days : NoDoubleBooking(Returned[d])

\* C4: every cell for which isCellDisabled is true is empty in the Schedule
\* generateWeeklySchedule returns, also when the input held a value there.
C4_DisabledEmptyWeek ==
  WeekReturned => \A d \in Days : DisabledEmpty(d, Returned[d])

\* C7: every non-UT cell that is non-empty in W1 = generateWeeklySchedule(S, R)
\* is non-empty in W2 = generateWeeklySchedule(W1, R).
C7_SecondRunKeepsCells ==
  (WeekReturned /\ run = 2) =>
    \A d \in Days : \A s \in Slots : \A c \in Columns \ { "UT" } :
      Cell(firstOut[d], s, c) # Empty => Cell(Returned[d], s, c) # Empty

\* C7 witness: the second run returned; the first run's output held a cell the
\* day solver clears (an identifier of no dispatcher), and the second run
\* filled a cell the first had left empty.
C7_Witness ==
  /\ WeekReturned
  /\ run = 2
  /\ \E d \in Days : \E s \in Slots : \E c \in Columns \ { "UT" } :
       Cell(firstOut[d], s, c) = << "ZZZ" >>
  /\ \E d \in Days : \E s \in Slots : \E c \in Columns \ { "UT" } :
       Cell(firstOut[d], s, c) = Empty /\ Cell(Returned[d], s, c) # Empty

\* C8: the calls never change the caller's input and return no day object of
\* the input: every day the caller passed in holds, at every step, the value it
\* held at the call; the day generateScheduleForDay returns is not the locked
\* day; the Schedule generateWeeklySchedule returns holds no day object of the
\* caller's Schedule.  (A day object and its rows are one allocation unit.)
C8_InputUntouched ==
  /\ mode = "week" => \A d \in Days : heap[current[d]] = input[d]
  /\ (mode = "day" /\ locked # 0) => heap[locked] = input[1]
  /\ (mode \in { "day", "week" } /\ pc \in { "return", "done" } /\ schedule # 0)
       => schedule \notin CallerRefs
  /\ WeekReturned => RefsOf(newSchedule) \cap RefsOf(current) = {}

\* C8 witness: generateWeeklySchedule returned for a Schedule that held a
\* dispatcher's name in a cell, and the returned Schedule differs from the input.
C8_Witness ==
  /\ WeekReturned
  /\ run = 1
  /\ \E d \in Days : \E s \in Slots : \E c \in Columns :
       /\ input[d][s][c] = << dispatchers[1].name >>
       /\ Cell(Returned[d], s, c) = << dispatchers[1].id >>
  /\ \A d \in Days : heap[current[d]] = input[d]

----------------------------------------------------------------------------
(* Properties of assignUTSlots *)

UTReturned == mode = "ut" /\ pc = "done"

\* the UT cells of the week of which the dispatcher is a participant, under
\* its id or its name
UTCellsOf(wv, d) ==
  { p \in Days \X Slots :
      \E x \in Participants(Cell(wv[p[1]], p[2], "UT")) : x = d.id \/ x = d.name }

Roster == Range(dispatchers)

\* the (work day, in-shift slot) pairs of a dispatcher
ShiftPairs(d) == (Range(List(d, "workDays")) \cap Days) \X Range(getEligibleSlots(d))

FreePairs(d, wv) ==
  { p \in ShiftPairs(d) :
      Cell(wv[p[1]], p[2], "UT") = Empty /\ ~isDispatcherInTimeslot(d.id, wv[p[1]], p[2]) }

\* the UT-eligible dispatchers ahead of dispatchers[i] in seniority order
Ahead(i) ==
  { j \in DOMAIN dispatchers :
      /\ utEligible(dispatchers[j])
      /\ \/ getSenioritySortKey(dispatchers[j]) < getSenioritySortKey(dispatchers[i])
         \/ (getSenioritySortKey(dispatchers[j]) = getSenioritySortKey(dispatchers[i]) /\ j < i) }

HasRoom(i) == Cardinality(FreePairs(dispatchers[i], input)) > Cardinality(Ahead(i))

C5_WitnessVolunteer ==
  /\ UTReturned
  /\ \E i \in DOMAIN dispatchers :
       /\ utEligible(dispatchers[i]) /\ HasRoom(i)
       /\ Flag(dispatchers[i], "wantsExtraUtility")
       /\ Cardinality(UTCellsOf(WeekValue(heap, week), dispatchers[i])) > 1

\* C6: if before assignUTSlots no dispatcher is a participant of more than one
\* UT cell of the week, a UT cell holding a single id or a composite, then
\* after it no dispatcher without wantsExtraUtility is a participant of more
\* than one UT cell.
C6_AtMostOneUT ==
  (UTReturned /\ \A d \in Roster : Cardinality(UTCellsOf(input, d)) <= 1)
  => \A d \in Roster :
       ~Flag(d, "wantsExtraUtility") => Cardinality(UTCellsOf(WeekValue(heap, week), d)) <= 1

----------------------------------------------------------------------------
(* Eligibility queries: isEligibleOnDayForSlot and isSlotInShift applied to one
   dispatcher, day and slot (src/src/solver/utils/shiftUtils.ts) *)

\* a dispatcher record with only the fields that are set; days is << >> for an
\* absent workDays and << list >> for a present one
Person(id, shift, workDays, follow) ==
  LET NoField == [f \in {} |-> f]
  IN  [id |-> id]
        @@ (IF shift = "" THEN NoField ELSE [shift |-> shift])
        @@ (IF workDays = << >> THEN NoField ELSE [workDays |-> workDays[1]])
        @@ (IF follow THEN [followTrainerSchedule |-> TRUE] ELSE NoField)

QueryPersons ==
  { Person("Q", s, w, f) :
      s \in {"", "A", "B", "C", "D", "E", "F"},
      w \in { << >>, << << >> >>, << << "Sunday" >> >>, << << "Monday" >> >>,
              << << "Saturday", "Tuesday" >> >> },
      f \in BOOLEAN }

QueryTrainers ==
  { Person("R", s, w, FALSE) :
      s \in {"", "A", "E", "F"}, w \in { << >>, << << "Sunday" >> >>, << << "Monday" >> >> } }

queryTrainer == IF Len(dispatchers) > 1 THEN << dispatchers[2] >> ELSE << >>

\* the two functions applied to one dispatcher, day and slot (and trainer)
EligibilityQuery ==
  /\ mode = "query"
  /\ pc = "call"
  /\ answer' = [ dayOk   |-> isEligibleOnDayForSlot(dispatchers[1], day, querySlot, queryTrainer),
                 shiftOk |-> isSlotInShift(dispatchers[1], querySlot) ]
  /\ pc' = "done"
  /\ UNCHANGED << mode, dispatchers, heap, day, locked, current, input, schedule, sorted,
                  idx, newSchedule, utVars, run, firstOut, seeded, querySlot, lastWrite >>

InitQuery ==
  /\ mode = "query"
  /\ pc = "call"
  /\ dispatchers \in { << p >> : p \in QueryPersons }
                       \cup { << p, t >> : p \in QueryPersons, t \in QueryTrainers }
  /\ day \in Days
  /\ querySlot \in Slots
  /\ answer = << >>
  /\ heap = << >>
  /\ locked = 0
  /\ current = << >>
  /\ input = << >>
  /\ schedule = 0
  /\ sorted = << >>
  /\ idx = 0
  /\ newSchedule = << >>
  /\ week = << >>
  /\ utAssignments = << >>
  /\ remaining = << >>
  /\ slotIndex = 0
  /\ run = 1
  /\ firstOut = << >>
  /\ seeded = << >>
  /\ lastWrite = NoWrite

SpecQuery == InitQuery /\ [][EligibilityQuery]_vars

Answered == mode = "query" /\ pc = "done"

Eligible == answer.dayOk /\ answer.shiftOk

SundayNightF ==
  /\ Answered
  /\ dispatchers[1] = Person("Q", "F", << << "Sunday" >> >>, FALSE)
  /\ queryTrainer = << >>
  /\ day = "Monday"

\* C11 as stated: a dispatcher with shift F and workDays = <<"Sunday">> is
\* eligible on Monday for exactly the first four slots of the grid
\* (0330-0530, 0530-0730, 0730-0930, 0930-1130) and for none of the other eight.
C11_FirstFourOfGrid ==
  SundayNightF => (Eligible <=> querySlot \in Range(SubSeq(timeSlots, 1, 4)))

\* C11 as the code has it: the same dispatcher is eligible on Monday for exactly
\* 2330-0130, 0130-0330, 0330-0530 and 0530-0730, and for none of the other eight.
C11_SpilloverF ==
  SundayNightF =>
    (Eligible <=> querySlot \in {"2330-0130", "0130-0330", "0330-0530", "0530-0730"})

C11_Witness == SundayNightF /\ querySlot = "2330-0130" /\ Eligible

\* the rule of the eligibility check for effective work days w, the effective
\* shift sDay of the day test and the shift sSlot of the slot test
RuleEligible(w, sDay, sSlot) ==
  LET previous == [ Monday |-> "Sunday", Tuesday |-> "Monday", Wednesday |-> "Tuesday",
                    Thursday |-> "Wednesday", Friday |-> "Thursday",
                    Saturday |-> "Friday", Sunday |-> "Saturday" ]
      spillover == IF sDay = "E" THEN { "2330-0130", "0130-0330" }
                   ELSE IF sDay = "F"
                        THEN { "2330-0130", "0130-0330", "0330-0530", "0530-0730" }
                        ELSE {}
      dayEligible == \/ w = << >>
                     \/ day \in Range(w)
                     \/ querySlot \in spillover /\ previous[day] \in Range(w)
      shiftEligible == sSlot = "" \/ querySlot \in Range(SHIFT_SLOTS[sSlot])
  IN  dayEligible /\ shiftEligible

\* the query is made for a dispatcher with followTrainerSchedule and a trainer
Following == Flag(dispatchers[1], "followTrainerSchedule") /\ queryTrainer # << >>

----------------------------------------------------------------------------
(* Properties of generateWeeklySchedule: what the passes write *)

\* the cells of the returned Schedule whose participants are not those of the
\* same cell of the input, identifiers compared after name-to-id normalization
ChangedCells ==
  { x \in Days \X Slots \X Columns :
      Participants(Cell(Returned[x[1]], x[2], x[3]))
        # Participants(NormalizeCell(Cell(input[x[1]], x[2], x[3]), dispatchers)) }

\* C12: every cell of the Schedule generateWeeklySchedule returns whose
\* participants differ from those of the same input cell holds exactly one
\* dispatcher id, the id of a dispatcher of the roster that is neither a trainee
\* (isTrainee or traineeOf) nor flagged excludeFromAutoSchedule.
C12_WrittenCellsSolo ==
  WeekReturned =>
    \A x \in ChangedCells :
      \E i \in DOMAIN dispatchers :
        /\ Cell(Returned[x[1]], x[2], x[3]) = << dispatchers[i].id >>
        /\ ~Flag(dispatchers[i], "isTrainee")
        /\ Str(dispatchers[i], "traineeOf") = ""
        /\ ~Flag(dispatchers[i], "excludeFromAutoSchedule")

\* C12 witness: the roster holds a trainee and an excluded dispatcher, the input
\* held a cell naming the excluded one, and the run wrote a radio cell and a UT cell.
C12_Witness ==
  /\ WeekReturned
  /\ \E i \in DOMAIN dispatchers : Flag(dispatchers[i], "isTrainee")
  /\ \E i \in DOMAIN dispatchers :
       /\ Flag(dispatchers[i], "excludeFromAutoSchedule")
       /\ \E d \in Days : \E s \in Slots : \E c \in Columns :
            dispatchers[i].name \in Participants(input[d][s][c])
  /\ \E x \in ChangedCells : x[3] = "UT"
  /\ \E x \in ChangedCells : isRadio(x[3])

\* C13: when a dispatcher with minimumRadioOnly is a participant of at most one
\* radio cell (a column other than UT and RELIEF) of the locked day, it is a
\* participant of at most one radio cell of the day generateScheduleForDay
\* returns; so also when generateWeeklySchedule runs on its own output.
C13_MinimumRadioOnlyCap ==
  LET RadioCellsOf(dv, d) ==
        { x \in Slots \X Columns :
            /\ isRadio(x[2])
            /\ Participants(Cell(dv, x[1], x[2])) \cap { d.id, d.name } # {} }
  IN  (mode \in { "day", "week" } /\ pc = "return" /\ locked # 0) =>
        \A i \in DOMAIN dispatchers :
          (Flag(dispatchers[i], "minimumRadioOnly")
             /\ Cardinality(RadioCellsOf(heap[locked], dispatchers[i])) <= 1)
            => Cardinality(RadioCellsOf(heap[schedule], dispatchers[i])) <= 1

----------------------------------------------------------------------------
(* Properties of generateScheduleForDay: who holds a cell of the returned day *)

\* generateScheduleForDay is at its return statement (line 51)
DaySolved == mode \in { "day", "week" } /\ pc = "return"

\* the dispatchers that pass the filter of prepareDispatchers for the day
Prepared == { i \in DOMAIN dispatchers : availableOn(dispatchers[i], day) }

\* an empty, non-disabled radio cell in a slot of d's shift for which d is eligible
RoomFor(d, dv, dy) ==
  \E s \in Range(getEligibleSlots(d)) : \E c \in Columns :
    /\ isRadio(c)
    /\ Cell(dv, s, c) = Empty
    /\ ~isCellDisabled(dy, s, c)
    /\ isEligibleOnDayForSlot(d, dy, s, << >>)

C14_WitnessNoRoom ==
  /\ DaySolved
  /\ \E i \in Prepared :
       /\ \A s \in Slots : \A c \in DOMAIN heap[schedule][s] :
            dispatchers[i].id \notin Participants(heap[schedule][s][c])
       /\ ~RoomFor(dispatchers[i], heap[schedule], day)

----------------------------------------------------------------------------
(* Properties of generateWeeklySchedule: the RELIEF column *)

\* C15: every RELIEF cell of the Schedule generateWeeklySchedule returns has the
\* participants of the same cell of the input, identifiers compared after
\* name-to-id normalization: no pass writes a RELIEF cell.
C15_ReliefUntouched ==
  WeekReturned =>
    \A d \in Days : \A s \in Slots :
      Participants(Cell(Returned[d], s, "RELIEF"))
        = Participants(NormalizeCell(Cell(input[d], s, "RELIEF"), dispatchers))

\* C15 witness: the run filled radio and UT cells of a day whose RELIEF column
\* held a dispatcher's name in one cell and otherwise empty cells.
C15_Witness ==
  /\ WeekReturned
  /\ \E d \in Days :
       /\ \E s \in Slots : \E i \in DOMAIN dispatchers :
            /\ Cell(input[d], s, "RELIEF") = << dispatchers[i].name >>
            /\ Cell(Returned[d], s, "RELIEF") = << dispatchers[i].id >>
       /\ \E s \in Slots : Cell(input[d], s, "RELIEF") = Empty
       /\ \E s \in Slots : \E c \in Columns :
            isRadio(c) /\ Cell(input[d], s, c) = Empty /\ Cell(Returned[d], s, c) # Empty
       /\ \E s \in Slots : Cell(input[d], s, "UT") = Empty /\ Cell(Returned[d], s, "UT") # Empty

\* C16: every participant of every non-empty cell of the day
\* generateScheduleForDay returns, both halves of a composite, is the id of a
\* dispatcher of the roster; a locked cell with an identifier that matches no
\* dispatcher is cleared.
C16_ParticipantsResolve ==
  DaySolved =>
    \A s \in Slots : \A c \in DOMAIN heap[schedule][s] :
      Participants(heap[schedule][s][c]) \subseteq rosterIds

\* C17: names outside the fixed enumerations in a dispatcher's preferences are
\* ignored: the working day of generateScheduleForDay has only the 12 slots and
\* the 8 channels of the grid, and the primary assignment of a dispatcher lands
\* in a cell of the grid whenever an empty, non-disabled radio cell existed in a
\* slot of its shift for which it is eligible.
C17_OnlyGridCells ==
  (mode \in { "day", "week" } /\ schedule # 0) =>
    /\ DOMAIN heap[schedule] = Slots
    /\ \A s \in Slots : DOMAIN heap[schedule][s] = Columns
    /\ \A w \in Range(lastWrite) :
         (w.pass = "primary"
            /\ \E i \in DOMAIN dispatchers :
                 dispatchers[i].id = w.who /\ RoomFor(dispatchers[i], w.before, day))
           => \E a \in Range(w.res) : a.slot \in Slots /\ a.col \in Columns

\* C18: of two dispatchers with the same seniority sort key, the day scheduler
\* processes the one with the smaller numeric badge first and, for equal
\* badges, the one with the lexicographically smaller id first, whatever their
\* order in the dispatchers argument.  (The ids are single letters: their
\* lexicographic order is the order of their character codes.)
C18_TieBreak ==
  (mode = "day" /\ pc = "primary") =>
    \A i, j \in DOMAIN sorted :
      (i < j /\ getSeniorityRank(sorted[i]) = getSeniorityRank(sorted[j])) =>
        \/ extractBadgeNumber(sorted[i].id) < extractBadgeNumber(sorted[j].id)
        \/ /\ extractBadgeNumber(sorted[i].id) = extractBadgeNumber(sorted[j].id)
           /\ idCharSum[sorted[i].id] <= idCharSum[sorted[j].id]

----------------------------------------------------------------------------
(* Termination of assignExtraUTSlots *)

\* the outer loop of assignExtraUTSlots goes on while its condition holds
SpecUTFair == SpecUT /\ WF_vars(UTExtraCycle)

\* C19: every iteration of the outer loop of assignExtraUTSlots either places at
\* least one UT cell, moving slotIndex forward within the list of remaining
\* cells, or leaves the loop; and the loop is left.
C19_ExtraPassTerminates ==
  /\ [][ pc = "utExtra" =>
           \/ pc' = "utReturn"
           \/ /\ slotIndex < slotIndex' /\ slotIndex' < Len(remaining)
              /\ \E p \in Range(remaining) :
                   /\ Cell(WeekValue(heap, week)[p.day], p.slot, "UT") = Empty
                   /\ Cell(WeekValue(heap', week')[p.day], p.slot, "UT") # Empty ]_vars
  /\ (pc = "utExtra") ~> (pc = "utReturn")

\* C19 witness: an iteration of the outer loop placed a UT cell and the loop goes on.
C19_Witness ==
  /\ mode = "ut"
  /\ pc = "utExtra"
  /\ slotIndex > 0
  /\ Cell(WeekValue(heap, week)[remaining[1].day], remaining[1].slot, "UT") # Empty

----------------------------------------------------------------------------
(* Properties of the writes of the primary and the extra-radio pass *)

\* C21: every write of the primary or the extra-radio pass goes to a cell that
\* was empty just before, in a channel other than UT and RELIEF, not disabled
\* for the day and slot, in a slot for which the dispatcher written is
\* day-eligible and in-shift and in which it was a participant of no column;
\* a dispatcher of shift E or F that does not work the day itself is written
\* only into the spillover slots of its shift.
C21_WritePreconditions ==
  mode = "day" =>
    \A w \in Range(lastWrite) : \A a \in Range(w.res) :
      \E i \in DOMAIN dispatchers :
        /\ dispatchers[i].id = w.who
        /\ Cell(w.before, a.slot, a.col) = Empty
        /\ a.col \notin { "UT", "RELIEF" }
        /\ ~isCellDisabled(day, a.slot, a.col)
        /\ isEligibleOnDayForSlot(dispatchers[i], day, a.slot, << >>)
        /\ isSlotInShift(dispatchers[i], a.slot)
        /\ \A c \in DOMAIN w.before[a.slot] :
             w.who \notin Participants(w.before[a.slot][c])
        /\ ( /\ Str(dispatchers[i], "shift") \in { "E", "F" }
             /\ ~Includes(List(dispatchers[i], "workDays"), day) )
           => Includes(IF dispatchers[i].shift = "E" THEN OVERNIGHT_SLOTS_E
                       ELSE OVERNIGHT_SLOTS_F, a.slot)

\* C21 witness: the extra-radio pass wrote a cell for a dispatcher that held a
\* cell already, in a day whose locked input held a cell too.
C21_Witness ==
  /\ mode = "day"
  /\ \E w \in Range(lastWrite) : \E a \in Range(w.res) :
       /\ w.pass = "extra"
       /\ \E s \in Slots : \E c \in Columns : w.who \in Participants(Cell(w.before, s, c))
       /\ \E s \in Slots : \E c \in Columns : Cell(seeded, s, c) # Empty

\* C21 witness of the spillover case: the extra-radio pass wrote a cell for a
\* dispatcher of shift F that does not work the day.
C21_WitnessSpillover ==
  /\ mode = "day"
  /\ \E w \in Range(lastWrite) : \E a \in Range(w.res) : \E i \in DOMAIN dispatchers :
       /\ w.pass = "extra"
       /\ dispatchers[i].id = w.who
       /\ Str(dispatchers[i], "shift") = "F"
       /\ ~Includes(List(dispatchers[i], "workDays"), day)

\* the combinations (time rank, channel rank) of d's preferences that are
\* available in the day value dv: cell empty, not disabled, d eligible for the
\* slot on the day and in its shift, d in no column of the slot
PreferredTimes(d) ==
  IF Len(List(d, "preferredTimeBlocks")) > 0 THEN d.preferredTimeBlocks
  ELSE getEligibleSlots(d)

PreferredChannels(d) ==
  SelectSeq(IF Len(List(d, "preferredChannels")) > 0 THEN d.preferredChannels ELSE columns,
            LAMBDA c : c \notin { "UT", "RELIEF" })

AvailableCombinations(d, dv, dy) ==
  { tc \in (DOMAIN PreferredTimes(d)) \X (DOMAIN PreferredChannels(d)) :
      LET s == PreferredTimes(d)[tc[1]]
          c == PreferredChannels(d)[tc[2]]
      IN  /\ Cell(dv, s, c) = Empty
          /\ ~isCellDisabled(dy, s, c)
          /\ isEligibleOnDayForSlot(d, dy, s, << >>)
          /\ isSlotInShift(d, s)
          /\ \A k \in DOMAIN dv[s] : d.id \notin Participants(dv[s][k]) }

\* C22: the cell a dispatcher with preferences receives in the primary pass,
\* when some combination of its preferences is available, is an available
\* combination of the smallest priority timeRank * (channelCount + 1) +
\* channelRank, so that no available combination has a better time rank.
C22_BestPreferredCell ==
  mode = "day" =>
    \A w \in Range(lastWrite) : \A i \in DOMAIN dispatchers :
      LET d == dispatchers[i]
          av == AvailableCombinations(d, w.before, day)
          n == Len(PreferredChannels(d))
      IN  ( /\ d.id = w.who
            /\ w.pass = "primary"
            /\ Len(List(d, "preferredChannels")) + Len(List(d, "preferredTimeBlocks")) > 0
            /\ av # {} )
          => /\ w.res # << >>
             /\ \E tc \in av :
                  /\ PreferredTimes(d)[tc[1]] = w.res[1].slot
                  /\ PreferredChannels(d)[tc[2]] = w.res[1].col
                  /\ \A o \in av :
                       /\ (tc[1] - 1) * (n + 1) + (tc[2] - 1) <= (o[1] - 1) * (n + 1) + (o[2] - 1)
                       /\ o[1] >= tc[1]

\* C22 witness: a dispatcher received its second preferred channel in its first
\* preferred time block while its first channel was free in a later block.
C22_Witness ==
  /\ mode = "day"
  /\ \E w \in Range(lastWrite) : \E i \in DOMAIN dispatchers :
       LET d == dispatchers[i]
       IN  /\ d.id = w.who
           /\ w.pass = "primary"
           /\ w.res # << >>
           /\ Len(List(d, "preferredChannels")) > 1
           /\ w.res[1].col = PreferredChannels(d)[2]
           /\ w.res[1].slot = PreferredTimes(d)[1]
           /\ << 2, 1 >> \in AvailableCombinations(d, w.before, day)

----------------------------------------------------------------------------
(* Properties of the volunteer-extra pass *)

\* C23: when the volunteer-extra pass has stopped, no UT-eligible dispatcher
\* with wantsExtraUtility fits any UT cell that is still empty (the day among
\* its work days, the slot in its shift, the dispatcher in no column of the
\* slot).
C23_StopsOnlyWhenNothingFits ==
  UTReturned =>
    LET wv == WeekValue(heap, week)
    IN  \A d \in Roster : \A dy \in Days : \A s \in Slots :
          ( /\ utEligible(d)
            /\ Flag(d, "wantsExtraUtility")
            /\ Cell(wv[dy], s, "UT") = Empty )
          => ~( /\ (Len(List(d, "workDays")) > 0 => Includes(d.workDays, dy))
                /\ isSlotInShift(d, s)
                /\ \A c \in Columns : d.id \notin Participants(Cell(wv[dy], s, c)) )

----------------------------------------------------------------------------
(* Properties of the merge of the solved day over the caller's day *)

\* the input cell (dy, s, c) survives sanitation: the locked day normalized to
\* ids and sanitized still holds a value there
Survives(dy, s, c) ==
  LET row == [ k \in Columns |-> NormalizeCell(Cell(input[dy], s, k), dispatchers) ]
  IN  SanitizeRow(dy, s, row, {}, 1, dispatchers)[c] # Empty

\* C24: every input cell whose value survives sanitation holds the same
\* participants, normalized to ids, in the Schedule generateWeeklySchedule
\* returns; and the merge of the solved day over the caller's day differs from
\* the caller's day only in cells where the solved day is non-empty, which take
\* the solved day's value.
C24_SurvivorsKept ==
  /\ WeekReturned =>
       \A d \in Days : \A s \in Slots : \A c \in Columns :
         Survives(d, s, c) =>
           Participants(Cell(Returned[d], s, c))
             = Participants(NormalizeCell(Cell(input[d], s, c), dispatchers))
  /\ (mode = "week" /\ pc = "return") =>
       LET m == mergeScheduleDays(heap, locked, schedule)
       IN  \A s \in Slots : \A c \in Columns :
             Cell(m.heap[m.ref], s, c) # Cell(heap[locked], s, c)
             => /\ Cell(heap[schedule], s, c) # Empty
                /\ Cell(m.heap[m.ref], s, c) = Cell(heap[schedule], s, c)

\* C24 witness: the input held a dispatcher's name in a cell that survives
\* sanitation and is returned under the id, and the run filled a cell of the
\* same day that the input had left empty.
C24_Witness ==
  /\ WeekReturned
  /\ run = 1
  /\ \E d \in Days : \E s \in Slots : \E c \in Columns :
       /\ Survives(d, s, c)
       /\ Cell(Returned[d], s, c) # Cell(input[d], s, c)
       /\ \E t \in Slots : \E k \in Columns :
            Cell(input[d], t, k) = Empty /\ Cell(Returned[d], t, k) # Empty

----------------------------------------------------------------------------
(* Properties of the order of the two passes of generateScheduleForDay *)

\* the working day's cells that differ from the day as sanitized
WrittenCells ==
  { x \in Slots \X Columns : Cell(heap[schedule], x[1], x[2]) # Cell(seeded, x[1], x[2]) }

Ascending(ds) ==
  \A j \in 1..(Len(ds) - 1) : getSeniorityRank(ds[j]) <= getSeniorityRank(ds[j + 1])

\* C25: the primary pass attempts every dispatcher of the prepared roster, one
\* after the other in ascending seniority rank and whether or not the attempt
\* before succeeded, and only then does the extra-radio pass begin, in ascending
\* rank as well; during the primary pass every cell written so far was
\* written by the primary attempt of a dispatcher visited earlier, at most one
\* cell each, so no cell a primary attempt finds taken is an extra slot.
C25_PrimaryBeforeExtra ==
  /\ []((mode \in { "day", "week" } /\ pc = "primary") =>
          /\ Len(sorted) = Cardinality(Prepared)
          /\ Ascending(sorted)
          /\ \A x \in WrittenCells :
               \E j \in 1..(idx - 1) : Cell(heap[schedule], x[1], x[2]) = << sorted[j].id >>
          /\ \A j \in 1..(idx - 1) :
               Cardinality({ x \in WrittenCells :
                             Cell(heap[schedule], x[1], x[2]) = << sorted[j].id >> }) <= 1)
  /\ []((mode \in { "day", "week" } /\ pc = "extra") => Ascending(sorted))
  /\ [][(mode \in { "day", "week" } /\ pc = "primary") =>
          /\ lastWrite'[1].who = sorted[idx].id
          /\ lastWrite'[1].pass = "primary"
          /\ IF idx < Len(sorted) THEN pc' = "primary" /\ idx' = idx + 1
             ELSE pc' \in { "extra", "return" }]_vars
  /\ [][(mode \in { "day", "week" } /\ pc = "extra") =>
          /\ lastWrite'[1].who = sorted[idx].id
          /\ lastWrite'[1].pass = "extra"
          /\ IF idx < Len(sorted) THEN pc' = "extra" /\ idx' = idx + 1
             ELSE pc' = "return"]_vars
  /\ [][(pc' = "extra" /\ pc # "extra") => (pc = "primary" /\ idx = Len(sorted))]_vars

\* C25 witness: the primary attempt of a dispatcher failed, the attempt of a
\* junior dispatcher after it succeeded, and the extra-radio pass has begun.
C25_Witness ==
  /\ mode = "week"
  /\ pc = "extra"
  /\ idx = 1
  /\ lastWrite[1].pass = "primary"
  /\ lastWrite[1].res # << >>
  /\ \E i \in Prepared :
       /\ \E k \in DOMAIN dispatchers :
            /\ dispatchers[k].id = lastWrite[1].who
            /\ getSeniorityRank(dispatchers[i]) < getSeniorityRank(dispatchers[k])
       /\ \A s \in Slots : \A c \in Columns :
            dispatchers[i].id \notin Participants(Cell(heap[schedule], s, c))

----------------------------------------------------------------------------
(* Properties of assignUTSlots: the cells it changes *)

----------------------------------------------------------------------------
(* Properties of the UT rescue pass *)

\* C27: the rescue pass places nothing: the step of assignUTSlots that runs
\* assignFallbackUTSlots for the dispatchers the primary pass left without a UT
\* cell leaves every cell of the week and every UT count as it was.
C27_RescuePlacesNothing ==
  [][pc = "utRescue" =>
       /\ \A d \in Days : heap'[week[d]] = heap[week[d]]
       /\ utAssignments' = utAssignments]_vars

\* C27 witness: the rescue pass has run for a UT-eligible dispatcher without a
\* UT cell while the week had empty UT cells.
C27_Witness ==
  /\ mode = "ut"
  /\ pc \in { "utExtra", "utReturn" }
  /\ Len(emptyUTSlots(WeekValue(heap, week))) > 0
  /\ \E i \in DOMAIN dispatchers :
       /\ utEligible(dispatchers[i])
       /\ utCount(utAssignments, dispatchers[i].id) = 0
       /\ UTCellsOf(WeekValue(heap, week), dispatchers[i]) = {}

----------------------------------------------------------------------------
(* Properties of the shift-aware fallback within generateWeeklySchedule *)

\* every preferred channel of every dispatcher of the roster is a column
FixedChannelsOnly ==
  \A i \in DOMAIN dispatchers :
    \A k \in DOMAIN List(dispatchers[i], "preferredChannels") :
      dispatchers[i].preferredChannels[k] \in Columns

\* the caller's day and the solved day are empty in every cell of the grid, so
\* that their merge is and the fallback is invoked
FallbackInvoked ==
  /\ mode = "week"
  /\ pc = "return"
  /\ \A s \in Slots : \A c \in Columns :
       Cell(heap[locked], s, c) = Empty /\ Cell(heap[schedule], s, c) = Empty

\* C28: whenever generateWeeklySchedule invokes the shift-aware fallback for a
\* day, with a roster whose preferred channels are all columns of the grid, the
\* prepared roster of the day is empty and the day processDaySchedule returns
\* is empty in every cell: the fallback contributes no assignment.
C28_FallbackContributesNothing ==
  [][(FallbackInvoked /\ FixedChannelsOnly) =>
       /\ Prepared = {}
       /\ \A s \in Slots : \A c \in Columns :
            Cell(heap'[newSchedule'[day]], s, c) = Empty]_vars

\* C28 witness: Monday received assignments, the fallback was invoked for
\* Tuesday and Tuesday's day is empty, for a roster with a dispatcher that is
\* neither excluded nor a trainee.
C28_Witness ==
  /\ mode = "week"
  /\ pc = "seed"
  /\ day = "Wednesday"
  /\ FixedChannelsOnly
  /\ \E i \in DOMAIN dispatchers : availableOn(dispatchers[i], "Monday")
  /\ \E s \in Slots : \E c \in Columns :
       Cell(input["Monday"], s, c) = Empty /\ Cell(heap[newSchedule["Monday"]], s, c) # Empty
  /\ \A s \in Slots : \A c \in Columns : Cell(heap[newSchedule["Tuesday"]], s, c) = Empty

----------------------------------------------------------------------------
(* Properties of generateScheduleForDay on an empty locked day *)

\* the cells of the day value dv of which id is a participant
CellsOf(dv, id) ==
  UNION { { << s, c >> : c \in { k \in DOMAIN dv[s] : id \in Participants(dv[s][k]) } } :
          s \in Slots }

\* the day is solved and its locked input was absent or empty in every cell
SolvedFromEmpty ==
  /\ DaySolved
  /\ locked # 0 => \A s \in Slots : \A c \in DOMAIN heap[locked][s] : heap[locked][s][c] = Empty

\* C29: in the day generateScheduleForDay returns for an absent or empty locked
\* day every dispatcher is a participant of at most two cells, of at most one if
\* it has minimumRadioOnly, of none if it is excluded, a trainee or not in the
\* prepared roster; two cells of one dispatcher are in different slots.
C29_CellsPerDispatcher ==
  SolvedFromEmpty =>
    \A i \in DOMAIN dispatchers :
      LET d == dispatchers[i]
          cells == CellsOf(heap[schedule], d.id)
      IN  /\ Cardinality(cells) <= 2
          /\ Flag(d, "minimumRadioOnly") => Cardinality(cells) <= 1
          /\ ( \/ Flag(d, "excludeFromAutoSchedule")
               \/ Flag(d, "isTrainee") \/ Str(d, "traineeOf") # ""
               \/ i \notin Prepared ) => cells = {}
          /\ \A x, y \in cells : x # y => x[1] # y[1]

\* C29 witness: on an empty locked day a dispatcher holds two cells while an
\* excluded dispatcher and a trainee of the roster hold none.
C29_Witness ==
  /\ SolvedFromEmpty
  /\ \E i \in DOMAIN dispatchers : Cardinality(CellsOf(heap[schedule], dispatchers[i].id)) = 2
  /\ \E i \in DOMAIN dispatchers : Flag(dispatchers[i], "excludeFromAutoSchedule")
  /\ \E i \in DOMAIN dispatchers : Flag(dispatchers[i], "isTrainee")

\* C29 witness of the cap: a dispatcher with minimumRadioOnly holds one cell.
C29_WitnessMinimumRadioOnly ==
  /\ SolvedFromEmpty
  /\ \E i \in DOMAIN dispatchers :
       /\ Flag(dispatchers[i], "minimumRadioOnly")
       /\ Cardinality(CellsOf(heap[schedule], dispatchers[i].id)) = 1

----------------------------------------------------------------------------
(* Properties of sanitizeLockedAssignments: the duplicate guard *)

\* the locked day as sanitizeLockedAssignments receives it
LockedNormalized ==
  [ s \in Slots |-> [ c \in Columns |-> NormalizeCell(Cell(input[1], s, c), dispatchers) ] ]

\* the cell is non-empty, not disabled, has a participant that resolves, and
\* every participant that resolves is eligible for the day and the slot
OtherwiseValid(s, c) ==
  LET participants == resolveParticipants(LockedNormalized[s][c], dispatchers)
  IN  /\ LockedNormalized[s][c] # Empty
      /\ ~isCellDisabled(day, s, c)
      /\ Len(participants) > 0
      /\ ParticipantsValid(day, s, participants, dispatchers)

\* the id of the first participant of the cell that resolves ("" if none does)
FirstParticipant(s, c) ==
  LET participants == resolveParticipants(LockedNormalized[s][c], dispatchers)
  IN  IF Len(participants) = 0 THEN "" ELSE dispatchers[participants[1]].id

Sanitized == mode = "day" /\ locked # 0 /\ pc \notin { "seed", "sanitize" }

\* C30: of the otherwise valid cells of one slot that have the same first
\* participant, sanitizeLockedAssignments keeps the one in the earliest column
\* and clears every later one; a cell that is not otherwise valid is cleared and
\* does not count as an earlier cell of its first participant.
C30_EarliestColumnKept ==
  Sanitized =>
    \A s \in Slots : \A c \in Columns :
      LET earlier == { k \in Columns : /\ IndexOf(columns, k) < IndexOf(columns, c)
                                       /\ OtherwiseValid(s, k)
                                       /\ FirstParticipant(s, k) = FirstParticipant(s, c) }
      IN  Cell(seeded, s, c) =
            IF OtherwiseValid(s, c) /\ earlier = {} THEN LockedNormalized[s][c] ELSE Empty

\* C30 witness: a cell was cleared because a participant is not eligible, and a
\* cell in a later column of the slot with the same first participant is kept.
C30_Witness ==
  /\ Sanitized
  /\ \E s \in Slots : \E c, k \in Columns :
       /\ IndexOf(columns, k) < IndexOf(columns, c)
       /\ LockedNormalized[s][k] # Empty /\ FirstParticipant(s, k) # ""
       /\ ~OtherwiseValid(s, k)
       /\ FirstParticipant(s, k) = FirstParticipant(s, c)
       /\ Cell(seeded, s, k) = Empty
       /\ Cell(seeded, s, c) # Empty

\* C30 witness of the duplicate: two otherwise valid cells of one slot have the
\* same first participant, the earlier is kept and the later is cleared.
C30_WitnessDuplicate ==
  /\ Sanitized
  /\ \E s \in Slots : \E c, k \in Columns :
       /\ IndexOf(columns, k) < IndexOf(columns, c)
       /\ OtherwiseValid(s, k) /\ OtherwiseValid(s, c)
       /\ FirstParticipant(s, k) = FirstParticipant(s, c)
       /\ Cell(seeded, s, k) # Empty
       /\ Cell(seeded, s, c) = Empty

====
